---- MODULE Spec2Model ----
(***************************************************************************)
(* A model of the lavalink client library (src/lavalink):                  *)
(*   - the per-guild playback Queue (ext/manager/queue.py) together with   *)
(*     the PlayerManager commands it issues (ext/manager/manager.py);      *)
(*   - the Lavalink client's connection life cycle, frame handling and     *)
(*     event dispatch (client.py, events.py).                              *)
(* Python's None is the string "None"; an UNDEFINED argument is the string *)
(* "UNDEFINED"; an exception that leaves a method is recorded by its class *)
(* name in the field `raised` of the record of the last operation.         *)
(***************************************************************************)
EXTENDS Integers, Sequences, FiniteSets, Bags, TLC

VARIABLES
    \* ---- Queue (queue.py:26-33)
    queue,              \* Queue.queue: the list of tracks (their `encoded`)
    now_playing_pos,    \* Queue.now_playing_pos
    is_paused,          \* Queue.is_paused
    repeat_mode,        \* Queue.repeat_mode: "none" | "one" | "all"
    \* ---- PlayerManager (manager.py:11-14)
    queues,             \* PlayerManager.queues: per guild "queue" (the Queue the
                        \* fields above belong to), "newer" (a Queue created
                        \* after that one was deleted) or "None"
    \* ---- the node's player of QueueGuild
    player,             \* the track it holds since the last command it
                        \* accepted, "None" once stopped or ended
    \* ---- Lavalink (client.py:47-59)
    _bot_id,            \* Lavalink._bot_id (0 for None)
    _resume_key,        \* the attribute start() assigns
    resume_key,         \* the attribute __init__ assigns and _handle_payload reads
    shutdown,           \* Lavalink.shutdown
    _session_id,        \* Lavalink._session_id
    _session,           \* Lavalink._session: "None" | "open" | "closed"
    _websocket,         \* Lavalink._websocket: "None" | "open" | "closed"
    _voice_states,      \* Lavalink._voice_states: guild -> voice state record
    _event_listeners,   \* Lavalink._event_listeners: event type -> callbacks
    \* ---- control state of the asyncio tasks
    pcStart,            \* the caller of start()
    pcConn,             \* position inside _connect()
    connCaller,         \* who awaits _connect(): "start" | "receive" | "none"
    pcRecv,             \* position of the _receive() task
    pcStop,             \* position inside stop()
    tasks,              \* the bag of tasks created with create_task, not yet run
    \* ---- observation
    closedSinceReady,   \* a CLOSED frame was observed and no ready frame since
    last                \* the last operation: its arguments, pre-state, effects

queueVars  == <<queue, now_playing_pos, is_paused, repeat_mode, queues, player>>
clientVars == <<_bot_id, _resume_key, resume_key, shutdown, _session_id, _session,
                _websocket, _voice_states, _event_listeners>>
taskVars   == <<pcStart, pcConn, connCaller, pcRecv, pcStop, tasks>>
vars       == <<queueVars, clientVars, taskVars, closedSinceReady, last>>

(***************************************************************************)
(* Bounds of the exploration.                                              *)
(***************************************************************************)
MaxLen   == 3      \* add() is explored up to this queue length
MaxItems == 1      \* remove_tracks() is explored with up to this many arguments
MaxShuffleLen == 5      \* shuffle() is explored up to this queue length
MaxRemoved == 2    \* at most this many indexes in one remove_tracks call
MaxTasks == 2      \* at most this many created tasks are pending at once

(***************************************************************************)
(* Values.                                                                 *)
(***************************************************************************)
Tracks      == {"A", "B"}              \* Track.encoded of the tracks in play
QueueGuild  == 1                       \* Queue.guild_id of the modelled queue
OtherGuild  == 2                       \* a guild that owns another queue
Guilds      == {QueueGuild, OtherGuild}
BotId       == 7                       \* the bot_id passed to start()
RepeatModes == {"none", "one", "all"}
TrackEndReasons == {"FINISHED", "LOAD_FAILED", "STOPPED", "REPLACED", "CLEANUP"}

NoVoice == [present |-> FALSE, token |-> "", endpoint |-> "", session_id |-> ""]

Truthy(s) == s \notin {"None", "UNDEFINED", ""}

(***************************************************************************)
(* REST commands.  A command is recorded when the queue or the manager     *)
(* calls it, with the outcome update_player has for it.                    *)
(***************************************************************************)

\* Lavalink.update_player: the precondition checks, then the request.
\* nodeOk: whether the node answers the request with success.
update_player(guild_id, encoded_track, nodeOk) ==
    IF Truthy(encoded_track) /\ ~_voice_states[guild_id].present
    THEN "ValueError"
    ELSE IF _session_id = "None"
    THEN "RuntimeError"
    ELSE IF nodeOk THEN "ok" ELSE "LavalinkError"

\* PlayerManager.play
play(guild_id, encoded_track, nodeOk) ==
    [cmd |-> "play", guild_id |-> guild_id, encoded_track |-> encoded_track,
     outcome |-> update_player(guild_id, encoded_track, nodeOk)]

\* PlayerManager.stop
stop(guild_id, nodeOk) ==
    [cmd |-> "stop", guild_id |-> guild_id, encoded_track |-> "None",
     outcome |-> update_player(guild_id, "None", nodeOk)]

Raised(c) == IF c.outcome = "ok" THEN "none" ELSE c.outcome

(***************************************************************************)
(* Queue methods as functions of the queue's fields.  Each gives the new   *)
(* list and cursor, the commands issued, the exception raised and the      *)
(* value returned.                                                         *)
(***************************************************************************)
Result(q, pos, cmds, raised, ret) ==
    [queue |-> q, now_playing_pos |-> pos, cmds |-> cmds, raised |-> raised,
     ret |-> ret]

\* Queue.now_playing
now_playing(q, pos) == IF pos < Len(q) THEN q[pos + 1] ELSE "None"

\* The result of a method that ends by awaiting command c and then returns ret.
AfterCmd(q, pos, c, ret) ==
    Result(q, pos, <<c>>, Raised(c), IF c.outcome = "ok" THEN ret ELSE "None")

add_only_when_empty(q, pos, paused, track, nodeOk) ==
    LET q2 == Append(q, track) IN
    IF ~paused /\ (pos = 0 /\ Len(q2) = 1)
    THEN AfterCmd(q2, pos, play(QueueGuild, track, nodeOk), "None")
    ELSE Result(q2, pos, <<>>, "none", "None")

\* Queue.add
add(q, pos, paused, track, nodeOk) ==
    LET q2 == Append(q, track) IN
    IF ~paused /\ ((pos = 0 /\ Len(q2) = 1) \/ pos = Len(q2) - 1)
    THEN AfterCmd(q2, pos, play(QueueGuild, track, nodeOk), "None")
    ELSE Result(q2, pos, <<>>, "none", "None")

next_skips_last(q, pos, paused, nodeOk) ==
    IF ~(pos < Len(q))
    THEN Result(q, pos, <<>>, "none", "None")
    ELSE LET p == pos + 2 IN
         IF ~paused /\ p < Len(q)
         THEN AfterCmd(q, p, play(QueueGuild, now_playing(q, p), nodeOk),
                       now_playing(q, p))
         ELSE Result(q, p, <<>>, "none", now_playing(q, p))

next_unguarded(q, pos, paused, nodeOk) ==
    LET p == pos + 1 IN
    IF ~paused /\ p < Len(q)
    THEN AfterCmd(q, p, play(QueueGuild, now_playing(q, p), nodeOk),
                  now_playing(q, p))
    ELSE Result(q, p, <<>>, "none", now_playing(q, p))

\* Queue.next
next(q, pos, paused, nodeOk) ==
    IF ~(pos < Len(q))
    THEN Result(q, pos, <<>>, "none", "None")
    ELSE LET p == pos + 1 IN
         IF ~paused /\ p < Len(q)
         THEN AfterCmd(q, p, play(QueueGuild, now_playing(q, p), nodeOk),
                       now_playing(q, p))
         ELSE Result(q, p, <<>>, "none", now_playing(q, p))

previous_replays_first(q, pos, paused, nodeOk) ==
    LET p == IF pos > 0 THEN pos - 1 ELSE 0 IN
    IF ~paused
    THEN IF now_playing(q, p) = "None"
         THEN Result(q, p, <<>>, "AssertionError", "None")
         ELSE AfterCmd(q, p, play(QueueGuild, now_playing(q, p), nodeOk),
                       now_playing(q, p))
    ELSE Result(q, p, <<>>, "none", now_playing(q, p))

\* Queue.previous
previous(q, pos, paused, nodeOk) ==
    IF ~(pos > 0)
    THEN Result(q, pos, <<>>, "none", "None")
    ELSE LET p == pos - 1 IN
         IF ~paused
         THEN IF now_playing(q, p) = "None"
              THEN Result(q, p, <<>>, "AssertionError", "None")
              ELSE AfterCmd(q, p, play(QueueGuild, now_playing(q, p), nodeOk),
                            now_playing(q, p))
         ELSE Result(q, p, <<>>, "none", now_playing(q, p))

skip_to_clamps_index(q, pos, paused, index, nodeOk) ==
    LET i == IF index < 0 THEN 0 ELSE IF index > Len(q) THEN Len(q) ELSE index
    IN  IF ~paused
        THEN IF now_playing(q, i) # "None"
             THEN AfterCmd(q, i, play(QueueGuild, now_playing(q, i), nodeOk),
                           now_playing(q, i))
             ELSE AfterCmd(q, i, stop(QueueGuild, nodeOk), "None")
        ELSE Result(q, i, <<>>, "none", now_playing(q, i))

skip_to_never_stops(q, pos, paused, index, nodeOk) ==
    IF ~(0 <= index /\ index <= Len(q))
    THEN Result(q, pos, <<>>, "IndexError", "None")
    ELSE IF ~paused /\ now_playing(q, index) # "None"
         THEN AfterCmd(q, index,
                       play(QueueGuild, now_playing(q, index), nodeOk),
                       now_playing(q, index))
         ELSE Result(q, index, <<>>, "none", now_playing(q, index))

\* Queue.skip_to
skip_to(q, pos, paused, index, nodeOk) ==
    IF ~(0 <= index /\ index <= Len(q))
    THEN Result(q, pos, <<>>, "IndexError", "None")
    ELSE IF ~paused
         THEN IF now_playing(q, index) # "None"
              THEN AfterCmd(q, index,
                            play(QueueGuild, now_playing(q, index), nodeOk),
                            now_playing(q, index))
              ELSE AfterCmd(q, index, stop(QueueGuild, nodeOk), "None")
         ELSE Result(q, index, <<>>, "none", now_playing(q, index))

\* PlayerManager.skip_to; qs is PlayerManager.queues, and q, pos, paused are the
\* fields of the guild's Queue when it has one
manager_skip_to(qs, q, pos, paused, guild_id, index, nodeOk) ==
    IF qs[guild_id] = "None"
    THEN Result(q, pos, <<>>, "QueueNotFound", "None")
    ELSE IF ~(0 <= index /\ index <= Len(q))
    THEN Result(q, pos, <<>>, "IndexError", "None")
    ELSE IF ~paused
         THEN IF now_playing(q, index) # "None"
              THEN AfterCmd(q, index,
                            play(guild_id, now_playing(q, index), nodeOk),
                            now_playing(q, index))
              ELSE AfterCmd(q, index, stop(guild_id, nodeOk), "None")
         ELSE Result(q, index, <<>>, "none", now_playing(q, index))

\* list.remove and list.pop, as Queue.remove_tracks uses them
RemoveAt(q, k) == SubSeq(q, 1, k - 1) \o SubSeq(q, k + 1, Len(q))

list_remove(q, track) ==
    IF \E k \in 1..Len(q) : q[k] = track
    THEN [queue |-> RemoveAt(q, CHOOSE k \in 1..Len(q) :
                                   /\ q[k] = track
                                   /\ \A j \in 1..(k - 1) : q[j] # track),
          raised |-> "none"]
    ELSE [queue |-> q, raised |-> "ValueError"]

list_pop(q, index) ==
    IF 0 <= index /\ index < Len(q)
    THEN [queue |-> RemoveAt(q, index + 1), raised |-> "none"]
    ELSE IF index < 0 /\ -index <= Len(q)
    THEN [queue |-> RemoveAt(q, Len(q) + index + 1), raised |-> "none"]
    ELSE [queue |-> q, raised |-> "IndexError"]

TrackItem(t) == [kind |-> "track", track |-> t, index |-> 0]
IndexItem(i) == [kind |-> "index", track |-> "None", index |-> i]

\* Queue.remove_tracks: the items one after the other, up to the first raise
RECURSIVE remove_tracks(_, _)
remove_tracks(q, items) ==
    IF items = <<>>
    THEN [queue |-> q, raised |-> "none"]
    ELSE LET r == IF Head(items).kind = "track"
                  THEN list_remove(q, Head(items).track)
                  ELSE list_pop(q, Head(items).index)
         IN  IF r.raised # "none" THEN r ELSE remove_tracks(r.queue, Tail(items))

\* Python slices with non-negative bounds: q[a:], q[:b], and the slice
\* assignments q[a:] = x and q[:b] = y
SliceFrom(q, a) == SubSeq(q, a + 1, Len(q))
SliceTo(q, b) == SubSeq(q, 1, IF b < Len(q) THEN b ELSE Len(q))
SetSliceFrom(q, a, x) == SliceTo(q, a) \o x
SetSliceTo(q, b, y) == y \o SliceFrom(q, b)

\* random.shuffle: every ordering of the list is a possible outcome
RECURSIVE Shuffles(_)
Shuffles(seq) ==
    IF seq = <<>> THEN {<<>>}
    ELSE UNION {{<<seq[k]>> \o rest :
                    rest \in Shuffles(SubSeq(seq, 1, k - 1)
                                        \o SubSeq(seq, k + 1, Len(seq)))} :
                k \in 1..Len(seq)}

shuffle_whole_queue(q, pos, mode) ==
    IF mode \in {0, 1} THEN Shuffles(q) ELSE {q}

\* Queue.shuffle: the lists the call can leave in self.queue
shuffle(q, pos, mode) ==
    LET upcoming == SliceFrom(q, pos + 1)
        history  == SliceTo(q, pos)
    IN  IF mode = 0
        THEN {SetSliceTo(SetSliceFrom(q, pos + 1, u), pos, h) :
                 u \in Shuffles(upcoming), h \in Shuffles(history)}
        ELSE IF mode = 1
        THEN {SetSliceTo(SetSliceFrom(q, pos + 1, SliceFrom(combined, pos + 1)),
                         pos, SliceTo(combined, pos)) :
                 combined \in Shuffles(upcoming \o history)}
        ELSE {q}

track_events_ignores_pause(ev, q, pos, paused, mode, nodeOk) ==
    IF ev.guild_id # QueueGuild
    THEN Result(q, pos, <<>>, "none", "None")
    ELSE IF ev.kind = "TrackEndEvent" /\ ev.reason # "FINISHED"
    THEN Result(q, pos, <<>>, "none", "None")
    ELSE IF mode = "one"
    THEN AfterCmd(q, pos, play(QueueGuild, ev.encoded_track, nodeOk), "None")
    ELSE IF mode = "all" /\ pos >= Len(q)
    THEN [skip_to(q, pos, FALSE, 0, nodeOk) EXCEPT !.ret = "None"]
    ELSE [next(q, pos, FALSE, nodeOk) EXCEPT !.ret = "None"]

track_events_stuck_ignored(ev, q, pos, paused, mode, nodeOk) ==
    IF ev.guild_id # QueueGuild \/ paused
    THEN Result(q, pos, <<>>, "none", "None")
    ELSE IF ev.kind # "TrackEndEvent" \/ ev.reason # "FINISHED"
    THEN Result(q, pos, <<>>, "none", "None")
    ELSE IF mode = "one"
    THEN AfterCmd(q, pos, play(QueueGuild, ev.encoded_track, nodeOk), "None")
    ELSE IF mode = "all" /\ pos >= Len(q)
    THEN [skip_to(q, pos, paused, 0, nodeOk) EXCEPT !.ret = "None"]
    ELSE [next(q, pos, paused, nodeOk) EXCEPT !.ret = "None"]

track_events_one_advances(ev, q, pos, paused, mode, nodeOk) ==
    IF ev.guild_id # QueueGuild \/ paused
    THEN Result(q, pos, <<>>, "none", "None")
    ELSE IF ev.kind = "TrackEndEvent" /\ ev.reason # "FINISHED"
    THEN Result(q, pos, <<>>, "none", "None")
    ELSE IF mode = "all" /\ pos >= Len(q)
    THEN [skip_to(q, pos, paused, 0, nodeOk) EXCEPT !.ret = "None"]
    ELSE [next(q, pos, paused, nodeOk) EXCEPT !.ret = "None"]

track_events_all_never_wraps(ev, q, pos, paused, mode, nodeOk) ==
    IF ev.guild_id # QueueGuild \/ paused
    THEN Result(q, pos, <<>>, "none", "None")
    ELSE IF ev.kind = "TrackEndEvent" /\ ev.reason # "FINISHED"
    THEN Result(q, pos, <<>>, "none", "None")
    ELSE IF mode = "one"
    THEN AfterCmd(q, pos, play(QueueGuild, ev.encoded_track, nodeOk), "None")
    ELSE [next(q, pos, paused, nodeOk) EXCEPT !.ret = "None"]

\* Queue.track_events, the listener of TrackEnd, TrackStuck and TrackException
track_events(ev, q, pos, paused, mode, nodeOk) ==
    IF ev.guild_id # QueueGuild \/ paused
    THEN Result(q, pos, <<>>, "none", "None")
    ELSE IF ev.kind = "TrackEndEvent" /\ ev.reason # "FINISHED"
    THEN Result(q, pos, <<>>, "none", "None")
    ELSE IF mode = "one"
    THEN AfterCmd(q, pos, play(QueueGuild, ev.encoded_track, nodeOk), "None")
    ELSE IF mode = "all" /\ pos >= Len(q)
    THEN [skip_to(q, pos, paused, 0, nodeOk) EXCEPT !.ret = "None"]
    ELSE [next(q, pos, paused, nodeOk) EXCEPT !.ret = "None"]

(***************************************************************************)
(* The record of the last operation.                                       *)
(***************************************************************************)
NoEvent == [kind |-> "none", guild_id |-> 0, encoded_track |-> "None",
            reason |-> "None"]

Pre == [queue |-> queue, now_playing_pos |-> now_playing_pos,
        is_paused |-> is_paused, repeat_mode |-> repeat_mode,
        _session_id |-> _session_id, _websocket |-> _websocket,
        shutdown |-> shutdown]

NoFrame == [op |-> "none", type |-> "<absent>", sessionId |-> "<absent>",
            resumed |-> "<absent>"]

NoArgs == [event |-> NoEvent, guild_id |-> 0, index |-> 0, track |-> "None",
           items |-> <<>>, mode |-> "None", frame |-> NoFrame,
           resume_key |-> "None"]

Op(name, args, cmds, raised, ret) ==
    [op |-> name, args |-> args, pre |-> Pre, cmds |-> cmds, raised |-> raised,
     ret |-> ret, scheduled |-> <<>>]

LifecycleEvents ==
    {[kind |-> "TrackEndEvent", guild_id |-> g, encoded_track |-> t, reason |-> r] :
        g \in Guilds, t \in Tracks, r \in TrackEndReasons}
    \cup
    {[kind |-> k, guild_id |-> g, encoded_track |-> t, reason |-> "None"] :
        k \in {"TrackStuckEvent", "TrackExceptionEvent"}, g \in Guilds, t \in Tracks}

\* the mode arguments of shuffle: the two modes it knows and one it does not
ShuffleModes == {0, 1, 2}

\* the index arguments tried on a list of length n: every valid index, the
\* negative index -1, and the first index out of range on either side
Indexes(n) == (-1)..(n + 1)

RECURSIVE SeqsUpTo(_, _)
SeqsUpTo(S, n) ==
    IF n = 0 THEN {<<>>}
    ELSE LET shorter == SeqsUpTo(S, n - 1)
         IN  shorter \cup {Append(s, x) : s \in shorter, x \in S}

\* the argument lists of remove_tracks on a list of length n: tracks, or
\* indexes (its two overloads)
RemoveArgs(n) ==
    (SeqsUpTo({TrackItem(t) : t \in Tracks}, MaxItems)
        \cup SeqsUpTo({IndexItem(i) : i \in (-1)..n}, MaxItems)) \ {<<>>}

(***************************************************************************)
(* The operations on the queue.                                            *)
(***************************************************************************)
Effect(name, args, r) ==
    /\ queue' = r.queue
    /\ now_playing_pos' = r.now_playing_pos
    /\ last' = Op(name, args, r.cmds, r.raised, r.ret)
    /\ UNCHANGED <<is_paused, repeat_mode, queues, player, clientVars, taskVars,
                   closedSinceReady>>

Queue_add ==
    /\ Len(queue) < MaxLen
    /\ \E track \in Tracks :
          \E r \in {add(queue, now_playing_pos, is_paused, track, nodeOk) :
                        nodeOk \in BOOLEAN} :
              Effect("add", [NoArgs EXCEPT !.track = track], r)

Queue_next ==
    \E r \in {next(queue, now_playing_pos, is_paused, nodeOk) :
                  nodeOk \in BOOLEAN} :
        Effect("next", NoArgs, r)

Queue_previous ==
    \E r \in {previous(queue, now_playing_pos, is_paused, nodeOk) :
                  nodeOk \in BOOLEAN} :
        Effect("previous", NoArgs, r)

Queue_skip_to ==
    \E index \in Indexes(Len(queue)) :
        \E r \in {skip_to(queue, now_playing_pos, is_paused, index, nodeOk) :
                      nodeOk \in BOOLEAN} :
            Effect("skip_to", [NoArgs EXCEPT !.index = index], r)

Queue_remove_tracks ==
    \E items \in RemoveArgs(Len(queue)) :
        LET r == remove_tracks(queue, items) IN
        Effect("remove_tracks", [NoArgs EXCEPT !.items = items],
               Result(r.queue, now_playing_pos, <<>>, r.raised, "None"))

\* the argument lists of remove_tracks that name distinct positions of a
\* list of n tracks by their non-negative indexes
RemoveIndexArgs(n) ==
    {items \in SeqsUpTo({IndexItem(i) : i \in 0..(n - 1)}, MaxRemoved) \ {<<>>} :
        \A j, k \in 1..Len(items) : j # k => items[j] # items[k]}

\* Queue.remove_tracks(i1, ..., ik) with distinct valid indexes
Queue_remove_indexes ==
    \E items \in RemoveIndexArgs(Len(queue)) :
        LET r == remove_tracks(queue, items) IN
        Effect("remove_tracks", [NoArgs EXCEPT !.items = items],
               Result(r.queue, now_playing_pos, <<>>, r.raised, "None"))

\* Queue.clear
Queue_clear ==
    Effect("clear", NoArgs, Result(<<>>, now_playing_pos, <<>>, "none", "None"))

\* PlayerManager.skip_to, for a guild whose Queue (if any) is the one modelled
PlayerManager_skip_to ==
    \E guild_id \in Guilds, index \in Indexes(Len(queue)) :
        /\ queues[guild_id] # "newer"
        /\ \E r \in {manager_skip_to(queues, queue, now_playing_pos, is_paused,
                                      guild_id, index, nodeOk) :
                          nodeOk \in BOOLEAN} :
              Effect("manager_skip_to",
                     [NoArgs EXCEPT !.guild_id = guild_id, !.index = index], r)

\* Queue.set_repeat_mode
Queue_set_repeat_mode ==
    \E mode \in RepeatModes :
        /\ repeat_mode' = mode
        /\ last' = Op("set_repeat_mode", [NoArgs EXCEPT !.mode = mode], <<>>,
                      "none", "None")
        /\ UNCHANGED <<queue, now_playing_pos, is_paused, queues, player, clientVars,
                       taskVars, closedSinceReady>>

\* Queue.shuffle
Queue_shuffle ==
    \E mode \in ShuffleModes :
        \E q \in shuffle(queue, now_playing_pos, mode) :
            Effect("shuffle", [NoArgs EXCEPT !.mode = mode],
                   Result(q, now_playing_pos, <<>>, "none", "None"))

\* A lifecycle event is delivered to the queue's listener.
Queue_track_events ==
    \E ev \in LifecycleEvents :
        \E r \in {track_events(ev, queue, now_playing_pos, is_paused,
                                repeat_mode, nodeOk) : nodeOk \in BOOLEAN} :
            Effect("track_events", [NoArgs EXCEPT !.event = ev], r)

\* PlayerManager.pause and PlayerManager.resume: the command, then the flag
SetPaused(name, guild_id, flag, nodeOk) ==
    LET c == [cmd |-> name, guild_id |-> guild_id, encoded_track |-> "UNDEFINED",
              outcome |-> update_player(guild_id, "UNDEFINED", nodeOk)]
    IN  /\ is_paused' = IF c.outcome = "ok" /\ queues[guild_id] = "queue"
                        THEN flag ELSE is_paused
        /\ last' = Op(name, [NoArgs EXCEPT !.guild_id = guild_id], <<c>>,
                      Raised(c), "None")
        /\ UNCHANGED <<queue, now_playing_pos, repeat_mode, queues, player, clientVars,
                       taskVars, closedSinceReady>>

PlayerManager_pause ==
    \E guild_id \in Guilds, nodeOk \in BOOLEAN :
        SetPaused("pause", guild_id, TRUE, nodeOk)

PlayerManager_resume ==
    \E guild_id \in Guilds, nodeOk \in BOOLEAN :
        SetPaused("resume", guild_id, FALSE, nodeOk)

(***************************************************************************)
(* The queue's specification: a queue created for QueueGuild on a client   *)
(* that is connected, has a session and tracks the guild's voice state.    *)
(***************************************************************************)
EventTypes == {"ReadyEvent", "PlayerUpdateEvent", "StatsEvent", "TrackStartEvent",
               "TrackEndEvent", "TrackExceptionEvent", "TrackStuckEvent",
               "WebSocketClosedEvent"}

\* PlayerManager.create_queue(QueueGuild): Queue.__init__ and the entry in
\* PlayerManager.queues
QueueCreated ==
    /\ queue = <<>>
    /\ now_playing_pos = 0
    /\ is_paused = FALSE
    /\ repeat_mode = "none"
    /\ queues = [g \in Guilds |-> IF g = QueueGuild THEN "queue" ELSE "None"]
    /\ player = now_playing(queue, now_playing_pos)

QueueListeners ==
    [t \in EventTypes |->
        IF t \in {"TrackEndEvent", "TrackStuckEvent", "TrackExceptionEvent"}
        THEN <<"track_events">> ELSE <<>>]

InitLast == [op |-> "init", args |-> NoArgs, pre |-> Pre, cmds |-> <<>>,
             raised |-> "none", ret |-> "None", scheduled |-> <<>>]

Init ==
    /\ QueueCreated
    /\ _bot_id = BotId
    /\ _resume_key = "None"
    /\ resume_key = "None"
    /\ shutdown = FALSE
    /\ _session_id = "s1"
    /\ _session = "open"
    /\ _websocket = "open"
    /\ _voice_states = [g \in Guilds |->
                            IF g = QueueGuild
                            THEN [present |-> TRUE, token |-> "tok",
                                  endpoint |-> "ep", session_id |-> "v1"]
                            ELSE NoVoice]
    /\ _event_listeners = QueueListeners
    /\ pcStart = "started"
    /\ pcConn = "idle"
    /\ connCaller = "none"
    /\ pcRecv = "receive"
    /\ pcStop = "idle"
    /\ tasks = EmptyBag
    /\ closedSinceReady = FALSE
    /\ last = InitLast

Next ==
    \/ Queue_add
    \/ Queue_next
    \/ Queue_previous
    \/ Queue_skip_to
    \/ Queue_remove_tracks
    \/ Queue_clear
    \/ Queue_set_repeat_mode
    \/ Queue_track_events
    \/ PlayerManager_pause
    \/ PlayerManager_resume

Spec == Init /\ [][Next]_vars

\* Only the operations that move the cursor or change the list by add/remove.
QueueOpsNext ==
    \/ Queue_add
    \/ Queue_next
    \/ Queue_previous
    \/ Queue_skip_to
    \/ Queue_remove_tracks

SpecQueueOps == Init /\ [][QueueOpsNext]_vars

\* Cursor moves by index, through the queue and through the manager, on a
\* queue that grows and may be paused.
SkipNext ==
    \/ Queue_add
    \/ Queue_skip_to
    \/ PlayerManager_skip_to
    \/ PlayerManager_pause
    \/ PlayerManager_resume

SpecSkip == Init /\ [][SkipNext]_vars

\* The queue's specification for shuffle: a queue that holds up to
\* MaxShuffleLen tracks, its cursor anywhere from the first track to the end,
\* on the connected client of Init.
ShuffleInit ==
    /\ queue \in SeqsUpTo(Tracks, MaxShuffleLen)
    /\ now_playing_pos \in 0..Len(queue)
    /\ is_paused = FALSE
    /\ repeat_mode = "none"
    /\ queues = [g \in Guilds |-> IF g = QueueGuild THEN "queue" ELSE "None"]
    /\ player = now_playing(queue, now_playing_pos)
    /\ _bot_id = BotId
    /\ _resume_key = "None"
    /\ resume_key = "None"
    /\ shutdown = FALSE
    /\ _session_id = "s1"
    /\ _session = "open"
    /\ _websocket = "open"
    /\ _voice_states = [g \in Guilds |->
                            IF g = QueueGuild
                            THEN [present |-> TRUE, token |-> "tok",
                                  endpoint |-> "ep", session_id |-> "v1"]
                            ELSE NoVoice]
    /\ _event_listeners = QueueListeners
    /\ pcStart = "started"
    /\ pcConn = "idle"
    /\ connCaller = "none"
    /\ pcRecv = "receive"
    /\ pcStop = "idle"
    /\ tasks = EmptyBag
    /\ closedSinceReady = FALSE
    /\ last = InitLast

ShuffleNext == Queue_shuffle

SpecShuffle == ShuffleInit /\ [][ShuffleNext]_vars

\* Tracks are added and removed by index, several indexes in one call.
RemoveNext ==
    \/ Queue_add
    \/ Queue_remove_indexes

SpecRemove == ShuffleInit /\ [][RemoveNext]_vars

TypeOK ==
    /\ queue \in SeqsUpTo(Tracks, MaxLen)
    /\ now_playing_pos \in 0..(MaxLen + 1)
    /\ is_paused \in BOOLEAN
    /\ repeat_mode \in RepeatModes
    /\ queues \in [Guilds -> {"queue", "newer", "None"}]
    /\ player \in Tracks \cup {"None"}

(***************************************************************************)
(* Properties of the queue.                                                *)
(***************************************************************************)

\* The last operation was track_events for a FINISHED TrackEnd of the queue's
\* guild, on a queue that was not paused.
FinishedHandled ==
    /\ last.op = "track_events"
    /\ last.args.event.kind = "TrackEndEvent"
    /\ last.args.event.reason = "FINISHED"
    /\ last.args.event.guild_id = QueueGuild
    /\ ~last.pre.is_paused

PlayOf(track) ==
    /\ Len(last.cmds) = 1
    /\ last.cmds[1].cmd = "play"
    /\ last.cmds[1].guild_id = QueueGuild
    /\ last.cmds[1].encoded_track = track

\* C1: after any sequence of add, next, previous, skip_to and remove_tracks,
\* 0 <= now_playing_pos <= len(queue).
C1_CursorWithinQueue ==
    0 <= now_playing_pos /\ now_playing_pos <= Len(queue)

C7_Case ==
    /\ FinishedHandled
    /\ last.pre.repeat_mode = "none"
    /\ last.pre.now_playing_pos + 1 < Len(last.pre.queue)

\* C7: repeat mode none, not paused, cursor i with i+1 < len(queue): handling a
\* FINISHED TrackEnd of the queue's guild sets the cursor to i+1 and issues
\* exactly one play command, for the encoded track at queue[i+1].
C7_FinishedPlaysNext ==
    C7_Case =>
        /\ now_playing_pos = last.pre.now_playing_pos + 1
        /\ queue = last.pre.queue
        /\ PlayOf(last.pre.queue[last.pre.now_playing_pos + 2])

C7_Witness ==
    /\ C7_Case
    /\ last.pre.queue = <<"A", "B", "A">>
    /\ last.pre.now_playing_pos = 0
    /\ now_playing_pos = 1
    /\ PlayOf("B")

C8_Case ==
    /\ FinishedHandled
    /\ last.pre.repeat_mode = "none"
    /\ Len(last.pre.queue) > 0
    /\ last.pre.now_playing_pos = Len(last.pre.queue) - 1

\* C8: repeat mode none, not paused, cursor on the last track: handling a
\* FINISHED TrackEnd of the queue's guild moves the cursor to len(queue), leaves
\* now_playing undefined, and issues a stop command and no play command.
C8_FinishedAtLastStops ==
    C8_Case =>
        /\ now_playing_pos = Len(queue)
        /\ now_playing(queue, now_playing_pos) = "None"
        /\ \E k \in 1..Len(last.cmds) : last.cmds[k].cmd = "stop"
        /\ \A k \in 1..Len(last.cmds) : last.cmds[k].cmd # "play"

C9_Case ==
    /\ FinishedHandled
    /\ last.pre.repeat_mode = "one"
    /\ last.args.event.encoded_track =
          now_playing(last.pre.queue, last.pre.now_playing_pos)

\* C9: repeat mode one, not paused: handling a FINISHED TrackEnd for the track
\* that is playing issues exactly one play command, for the encoded track the
\* event carries, and leaves now_playing_pos unchanged.
C9_RepeatOneReplays ==
    C9_Case =>
        /\ PlayOf(last.args.event.encoded_track)
        /\ now_playing_pos = last.pre.now_playing_pos
        /\ queue = last.pre.queue

C9_Witness ==
    /\ C9_Case
    /\ last.pre.queue = <<"A", "B">>
    /\ last.pre.now_playing_pos = 1
    /\ now_playing_pos = 1
    /\ PlayOf("B")

C10_Case ==
    /\ FinishedHandled
    /\ last.pre.repeat_mode = "all"
    /\ Len(last.pre.queue) > 0
    /\ last.pre.now_playing_pos = Len(last.pre.queue)

\* C10: repeat mode all, non-empty queue, not paused, cursor at len(queue):
\* handling a FINISHED TrackEnd of the queue's guild sets the cursor to 0 and
\* issues a play command for queue[0].
C10_RepeatAllWraps ==
    C10_Case =>
        /\ now_playing_pos = 0
        /\ queue = last.pre.queue
        /\ PlayOf(last.pre.queue[1])

C10_Witness ==
    /\ C10_Case
    /\ last.pre.queue = <<"B", "A">>
    /\ last.pre.now_playing_pos = 2
    /\ now_playing_pos = 0
    /\ PlayOf("B")

NoCommand == last.cmds = <<>> /\ last.raised = "none"

StopIssued ==
    /\ Len(last.cmds) = 1
    /\ last.cmds[1].cmd = "stop"
    /\ last.cmds[1].guild_id = QueueGuild

QueueFieldsUnchanged ==
    /\ queue = last.pre.queue
    /\ now_playing_pos = last.pre.now_playing_pos
    /\ is_paused = last.pre.is_paused
    /\ repeat_mode = last.pre.repeat_mode

C11_Case ==
    /\ last.op = "track_events"
    /\ \/ last.args.event.guild_id # QueueGuild
       \/ last.pre.is_paused
       \/ /\ last.args.event.kind = "TrackEndEvent"
          /\ last.args.event.reason # "FINISHED"

\* C11: a lifecycle event of another guild, or on a paused queue, or a TrackEnd
\* whose reason is not FINISHED, leaves the track list, the cursor, the paused
\* flag and the repeat mode unchanged and issues no REST command.
C11_IgnoredEventChangesNothing ==
    C11_Case => (QueueFieldsUnchanged /\ NoCommand)

C11_Witness ==
    /\ C11_Case
    /\ last.args.event.guild_id = QueueGuild
    /\ last.args.event.kind = "TrackStuckEvent"
    /\ last.pre.is_paused
    /\ last.pre.now_playing_pos + 1 < Len(last.pre.queue)
    /\ QueueFieldsUnchanged

C12_Case ==
    /\ last.op = "track_events"
    /\ last.args.event.kind \in {"TrackStuckEvent", "TrackExceptionEvent"}
    /\ last.args.event.guild_id = QueueGuild
    /\ ~last.pre.is_paused

\* C12: a TrackStuck or TrackException event of the queue's guild on a queue
\* that is not paused follows the advance policy of a FINISHED TrackEnd: in mode
\* one the event's track is replayed, in mode all with the cursor at the end the
\* queue wraps to index 0, otherwise next() is applied.
C12_StuckAndExceptionAdvance ==
    C12_Case =>
        LET q == last.pre.queue
            i == last.pre.now_playing_pos
        IN  /\ queue = q
            /\ IF last.pre.repeat_mode = "one"
               THEN now_playing_pos = i /\ PlayOf(last.args.event.encoded_track)
               ELSE IF last.pre.repeat_mode = "all" /\ i >= Len(q)
               THEN /\ now_playing_pos = 0
                    /\ IF Len(q) > 0 THEN PlayOf(q[1]) ELSE StopIssued
               ELSE IF i < Len(q)
               THEN /\ now_playing_pos = i + 1
                    /\ IF i + 1 < Len(q) THEN PlayOf(q[i + 2])
                                         ELSE NoCommand
               ELSE now_playing_pos = i /\ NoCommand

C12_Witness ==
    /\ C12_Case
    /\ last.args.event.kind = "TrackExceptionEvent"
    /\ last.pre.repeat_mode = "all"
    /\ last.pre.now_playing_pos = Len(last.pre.queue)
    /\ Len(queue) = 2
    /\ now_playing_pos = 0
    /\ PlayOf(queue[1])

\* C13: add(track) appends the track and leaves the cursor unchanged; it issues
\* a play command for the track exactly when the queue is not paused and the
\* cursor was at the end of the queue before the call, and no command otherwise.
C13_AddAppendsAndPlaysAtEnd ==
    (last.op = "add") =>
        /\ queue = Append(last.pre.queue, last.args.track)
        /\ now_playing_pos = last.pre.now_playing_pos
        /\ IF ~last.pre.is_paused
              /\ last.pre.now_playing_pos = Len(last.pre.queue)
           THEN PlayOf(last.args.track)
           ELSE NoCommand

C13_Witness ==
    /\ last.op = "add"
    /\ ~last.pre.is_paused
    /\ Len(last.pre.queue) = 2
    /\ last.pre.now_playing_pos = 2
    /\ Len(queue) = 3
    /\ PlayOf(queue[3])

C14_Case ==
    /\ last.op = "skip_to"
    /\ 0 <= last.args.index
    /\ last.args.index <= Len(last.pre.queue)

\* C14: skip_to(index) with 0 <= index <= len(queue) sets the cursor to index;
\* not paused it issues exactly one command, a play of queue[index] when
\* index < len(queue) and a stop when index = len(queue); paused it issues none.
C14_SkipToValidIndex ==
    C14_Case =>
        /\ now_playing_pos = last.args.index
        /\ queue = last.pre.queue
        /\ IF last.pre.is_paused THEN NoCommand
           ELSE IF last.args.index < Len(queue)
           THEN PlayOf(queue[last.args.index + 1])
           ELSE StopIssued

C14_Witness ==
    /\ C14_Case
    /\ ~last.pre.is_paused
    /\ Len(queue) = 2
    /\ last.pre.now_playing_pos = 0
    /\ last.args.index = 2
    /\ now_playing_pos = 2
    /\ StopIssued

\* C15: next() with the cursor on the last track returns no track and leaves
\* the cursor at len(queue); with the cursor already at len(queue) it returns no
\* track and changes nothing; it never moves the cursor beyond len(queue).
C15_NextAtEnd ==
    (last.op = "next") =>
        LET n == Len(last.pre.queue)
            i == last.pre.now_playing_pos
        IN  /\ queue = last.pre.queue
            /\ (n > 0 /\ i = n - 1) =>
                   (last.ret = "None" /\ now_playing_pos = n)
            /\ (i = n) =>
                   (last.ret = "None" /\ QueueFieldsUnchanged /\ NoCommand)
            /\ (i <= n) => (now_playing_pos <= n)

C15_Witness ==
    /\ last.op = "next"
    /\ Len(last.pre.queue) = 2
    /\ last.pre.now_playing_pos = 1
    /\ now_playing_pos = 2
    /\ last.ret = "None"

C16_Case ==
    /\ last.op = "previous"
    /\ last.pre.now_playing_pos = 0

\* C16: previous() with the cursor at 0 returns no track, leaves the cursor at
\* 0 and issues no REST command.
C16_PreviousAtStart ==
    C16_Case =>
        /\ last.ret = "None"
        /\ now_playing_pos = 0
        /\ queue = last.pre.queue
        /\ NoCommand

C16_Witness ==
    /\ C16_Case
    /\ ~last.pre.is_paused
    /\ Len(queue) = 2
    /\ now_playing_pos = 0
    /\ last.ret = "None"


\* the number of positions of seq that hold track t
Count(seq, t) == Cardinality({k \in 1..Len(seq) : seq[k] = t})

SameTracks(a, b) ==
    /\ Len(a) = Len(b)
    /\ \A t \in Tracks : Count(a, t) = Count(b, t)

ShuffleCalled(mode) ==
    /\ last.op = "shuffle"
    /\ last.args.mode = mode

\* C17: shuffle(mode=1) leaves a queue of the same length with the same
\* multiset of tracks, and the cursor unchanged.
C17_ShuffleOneKeepsTracks ==
    ShuffleCalled(1) =>
        /\ now_playing_pos = last.pre.now_playing_pos
        /\ SameTracks(queue, last.pre.queue)

\* C18: shuffle(mode=0) leaves the cursor and the track at the cursor
\* unchanged; the positions before the cursor hold a permutation of the tracks
\* that were before it, the positions after it a permutation of those after it.
C18_ShuffleZeroKeepsSlices ==
    ShuffleCalled(0) =>
        LET q0 == last.pre.queue
            i  == last.pre.now_playing_pos
        IN  /\ now_playing_pos = i
            /\ Len(queue) = Len(q0)
            /\ now_playing(queue, i) = now_playing(q0, i)
            /\ SameTracks(SubSeq(queue, 1, i), SubSeq(q0, 1, i))
            /\ SameTracks(SubSeq(queue, i + 2, Len(queue)),
                          SubSeq(q0, i + 2, Len(q0)))

C18_Witness ==
    /\ ShuffleCalled(0)
    /\ last.pre.queue = <<"A", "B", "A", "B", "A">>
    /\ last.pre.now_playing_pos = 2
    /\ queue = <<"B", "A", "A", "A", "B">>
    /\ now_playing_pos = 2

(***************************************************************************)
(* The Lavalink client: frames, payload handling and dispatch.             *)
(* A JSON value is a string: "<absent>" for a missing key, "<int>" for a   *)
(* number, "true" and "false" for the booleans, anything else for itself.  *)
(***************************************************************************)
IsStr(v)  == v \notin {"<absent>", "<int>", "true", "false"}
IsBool(v) == v \in {"true", "false"}

ReadyFrame(sessionId, resumed) ==
    [op |-> "ready", type |-> "<absent>", sessionId |-> sessionId,
     resumed |-> resumed]
\* a frame that has only its op (and, for op "event", its type)
OpFrame(op, type) ==
    [op |-> op, type |-> type, sessionId |-> "<absent>", resumed |-> "<absent>"]
StatsFrame   == OpFrame("stats", "<absent>")
UnknownFrame == OpFrame("pong", "<absent>")
PlayerUpdateFrame == OpFrame("playerUpdate", "<absent>")
EventFrame(type) == OpFrame("event", type)
\* text that is not JSON, and a JSON object without "op"
InvalidJsonFrame == OpFrame("<invalid json>", "<absent>")
MissingOpFrame   == OpFrame("<absent>", "<absent>")

\* the nested types _handle_payload knows for op "event"
KnownEventTypes == {"TrackStartEvent", "TrackEndEvent", "TrackExceptionEvent",
                    "TrackStuckEvent", "WebSocketClosedEvent"}

ValidReadyFrames == {ReadyFrame("s1", "false"), ReadyFrame("s2", "true")}
MalformedReadyFrames ==
    {ReadyFrame("s1", "<absent>"), ReadyFrame("<int>", "true"),
     ReadyFrame("<absent>", "false")}
AllFrames ==
    ValidReadyFrames \cup MalformedReadyFrames \cup {StatsFrame, UnknownFrame}

NoEventObject == [type |-> "None", resumed |-> FALSE, session_id |-> "None"]

ReadyEvent_from_payload_never_resumed(data) ==
    IF data.resumed = "<absent>" \/ data.sessionId = "<absent>"
    THEN [raised |-> "KeyError", event |-> NoEventObject]
    ELSE IF ~(IsBool(data.resumed) /\ IsStr(data.sessionId))
    THEN [raised |-> "AssertionError", event |-> NoEventObject]
    ELSE [raised |-> "none",
          event |-> [type |-> "ReadyEvent", resumed |-> FALSE,
                     session_id |-> data.sessionId]]

\* ReadyEvent.from_payload
ReadyEvent_from_payload(data) ==
    IF data.resumed = "<absent>" \/ data.sessionId = "<absent>"
    THEN [raised |-> "KeyError", event |-> NoEventObject]
    ELSE IF ~(IsBool(data.resumed) /\ IsStr(data.sessionId))
    THEN [raised |-> "AssertionError", event |-> NoEventObject]
    ELSE [raised |-> "none",
          event |-> [type |-> "ReadyEvent", resumed |-> (data.resumed = "true"),
                     session_id |-> data.sessionId]]

\* StatsEvent.from_payload, for a well-formed stats frame (its fields left out)
StatsEvent_from_payload(data) ==
    [raised |-> "none",
     event |-> [type |-> "StatsEvent", resumed |-> FALSE, session_id |-> "None"]]

\* from_payload of the other event classes, for a well-formed frame (its
\* fields left out)
Event_from_payload(event_type, data) ==
    [raised |-> "none",
     event |-> [type |-> event_type, resumed |-> FALSE, session_id |-> "None"]]

from_payload(event_type, data) ==
    IF event_type = "ReadyEvent" THEN ReadyEvent_from_payload(data)
    ELSE IF event_type = "StatsEvent" THEN StatsEvent_from_payload(data)
    ELSE Event_from_payload(event_type, data)

\* the tasks asyncio.create_task is called for
PayloadTask(data) ==
    [kind |-> "payload", data |-> data, callback |-> "None",
     event |-> NoEventObject]
ListenerTask(callback, event) ==
    [kind |-> "listener", data |-> NoFrame, callback |-> callback,
     event |-> event]

RECURSIVE BagOfSeq(_)
BagOfSeq(seq) ==
    IF seq = <<>> THEN EmptyBag
    ELSE SetToBag({Head(seq)}) (+) BagOfSeq(Tail(seq))

dispatch_reversed(event_type, data) ==
    LET listeners == _event_listeners[event_type] IN
    IF listeners = <<>>
    THEN [raised |-> "none", scheduled |-> <<>>]
    ELSE LET e == from_payload(event_type, data) IN
         IF e.raised # "none"
         THEN [raised |-> e.raised, scheduled |-> <<>>]
         ELSE [raised |-> "none",
               scheduled |-> [i \in 1..Len(listeners) |->
                                 ListenerTask(listeners[Len(listeners) + 1 - i],
                                              e.event)]]

\* Lavalink.dispatch: one task per callback registered under event_type
dispatch(event_type, data) ==
    LET listeners == _event_listeners[event_type] IN
    IF listeners = <<>>
    THEN [raised |-> "none", scheduled |-> <<>>]
    ELSE LET e == from_payload(event_type, data) IN
         IF e.raised # "none"
         THEN [raised |-> e.raised, scheduled |-> <<>>]
         ELSE [raised |-> "none",
               scheduled |-> [i \in 1..Len(listeners) |->
                                 ListenerTask(listeners[i], e.event)]]

\* Lavalink.update_session, called with the session ID `sid` recorded
update_session(resuming_key, sid, nodeOk) ==
    [cmd |-> "update_session", guild_id |-> 0, encoded_track |-> "UNDEFINED",
     resuming_key |-> resuming_key, session |-> sid,
     outcome |-> IF sid = "None" THEN "RuntimeError"
                 ELSE IF nodeOk THEN "ok" ELSE "LavalinkError"]

Handled(sid, cmds, raised, scheduled) ==
    [_session_id |-> sid, cmds |-> cmds, raised |-> raised,
     scheduled |-> scheduled]

handle_event_payload_rejects_unknown(data) ==
    IF data.type = "<absent>"
    THEN Handled(_session_id, <<>>, "KeyError", <<>>)
    ELSE IF data.type \in KnownEventTypes
    THEN LET d == dispatch(data.type, data)
         IN  Handled(_session_id, <<>>, d.raised, d.scheduled)
    ELSE Handled(_session_id, <<>>, "ValueError", <<>>)

\* Lavalink._handle_payload, the branch of op "event"
handle_event_payload(data) ==
    IF data.type = "<absent>"
    THEN Handled(_session_id, <<>>, "KeyError", <<>>)
    ELSE IF data.type \in KnownEventTypes
    THEN LET d == dispatch(data.type, data)
         IN  Handled(_session_id, <<>>, d.raised, d.scheduled)
    ELSE Handled(_session_id, <<>>, "none", <<>>)

\* Lavalink._handle_payload.  The await of update_session is taken in the same
\* step as the rest of the handler.
handle_payload(data, nodeOk) ==
    IF data.op = "<invalid json>"
    THEN Handled(_session_id, <<>>, "JSONDecodeError", <<>>)
    ELSE IF data.op = "<absent>"
    THEN Handled(_session_id, <<>>, "KeyError", <<>>)
    ELSE IF data.op = "ready"
    THEN IF data.sessionId = "<absent>"
         THEN Handled(_session_id, <<>>, "KeyError", <<>>)
         ELSE IF ~IsStr(data.sessionId)
         THEN Handled(_session_id, <<>>, "AssertionError", <<>>)
         ELSE LET c == update_session(resume_key, data.sessionId, nodeOk)
                  d == dispatch("ReadyEvent", data)
              IN  IF Truthy(resume_key)
                  THEN IF c.outcome # "ok"
                       THEN Handled(data.sessionId, <<c>>, c.outcome, <<>>)
                       ELSE Handled(data.sessionId, <<c>>, d.raised, d.scheduled)
                  ELSE Handled(data.sessionId, <<>>, d.raised, d.scheduled)
    ELSE IF data.op = "playerUpdate"
    THEN LET d == dispatch("PlayerUpdateEvent", data)
         IN  Handled(_session_id, <<>>, d.raised, d.scheduled)
    ELSE IF data.op = "stats"
    THEN LET d == dispatch("StatsEvent", data)
         IN  Handled(_session_id, <<>>, d.raised, d.scheduled)
    ELSE IF data.op = "event"
    THEN handle_event_payload(data)
    ELSE Handled(_session_id, <<>>, "none", <<>>)

(***************************************************************************)
(* The client's operations and the steps of its tasks.                     *)
(***************************************************************************)
MaxHung == 1      \* at most this many listeners never complete
MaxListeners == 2      \* listen() is explored up to this many callbacks a type

ListenCalls == {<<"ReadyEvent", "cb1">>, <<"ReadyEvent", "cb2">>,
                <<"StatsEvent", "cb2">>}
ResumeKeys == {"None", "rk"}

ClientOp(name, args, cmds, raised, scheduled) ==
    [Op(name, args, cmds, raised, "None") EXCEPT !.scheduled = scheduled]

Step(name) == last' = ClientOp(name, NoArgs, <<>>, "none", <<>>)

\* Lavalink.listen / Lavalink._add_event_listener
Lavalink_listen ==
    \E call \in ListenCalls :
        /\ Len(_event_listeners[call[1]]) < MaxListeners
        /\ _event_listeners' =
              [_event_listeners EXCEPT ![call[1]] = Append(@, call[2])]
        /\ Step("listen")
        /\ UNCHANGED <<queueVars, _bot_id, _resume_key, resume_key, shutdown,
                       _session_id, _session, _websocket, _voice_states,
                       taskVars, closedSinceReady>>

\* Lavalink.start, up to its await of _connect()
Lavalink_start ==
    \E key \in ResumeKeys :
        /\ pcStart = "new"
        /\ _bot_id' = BotId
        /\ _resume_key' = key
        /\ _session' = "open"
        /\ pcStart' = "connecting"
        /\ connCaller' = "start"
        /\ pcConn' = "attempt"
        /\ last' = ClientOp("start", [NoArgs EXCEPT !.resume_key = key], <<>>,
                            "none", <<>>)
        /\ UNCHANGED <<queueVars, resume_key, shutdown, _session_id, _websocket,
                       _voice_states, _event_listeners, pcRecv, pcStop, tasks,
                       closedSinceReady>>

\* _connect: session.ws_connect succeeds
Connect_ok ==
    /\ pcConn = "attempt"
    /\ _session = "open"
    /\ _websocket' = "open"
    /\ pcConn' = "sleep"
    /\ Step("connect_ok")
    /\ UNCHANGED <<queueVars, _bot_id, _resume_key, resume_key, shutdown,
                   _session_id, _session, _voice_states, _event_listeners,
                   pcStart, connCaller, pcRecv, pcStop, tasks, closedSinceReady>>

\* _connect: ClientConnectorError or WSServerHandshakeError, caught and logged
Connect_refused ==
    /\ pcConn = "attempt"
    /\ _session = "open"
    /\ pcConn' = "sleep"
    /\ Step("connect_refused")
    /\ UNCHANGED <<queueVars, clientVars, pcStart, connCaller, pcRecv, pcStop,
                   tasks, closedSinceReady>>

\* _connect on a closed ClientSession: the RuntimeError is not caught and
\* ends the coroutine that awaits _connect
Connect_session_closed ==
    /\ pcConn = "attempt"
    /\ _session = "closed"
    /\ pcConn' = "idle"
    /\ connCaller' = "none"
    /\ pcStart' = IF connCaller = "start" THEN "raised" ELSE pcStart
    /\ pcRecv' = IF connCaller = "receive" THEN "crashed" ELSE pcRecv
    /\ last' = ClientOp("connect_session_closed", NoArgs, <<>>, "RuntimeError",
                        <<>>)
    /\ UNCHANGED <<queueVars, clientVars, pcStop, tasks, closedSinceReady>>

Connect_sleep_done_returns(retry) ==
    /\ pcConn = "sleep"
    /\ pcConn' = "idle"
    /\ connCaller' = "none"
    /\ pcStart' = IF connCaller = "start" THEN "started" ELSE pcStart
    /\ pcRecv' = "top"
    /\ Step("connect_return")
    /\ UNCHANGED <<queueVars, clientVars, pcStop, tasks, closedSinceReady>>

\* _connect: the sleep ends and the loop tests `not self._websocket`; on
\* return start() creates the _receive task, _receive goes back to its loop
Connect_sleep_done(retry) ==
    /\ pcConn = "sleep"
    /\ IF retry
       THEN /\ pcConn' = "attempt"
            /\ Step("connect_retry")
            /\ UNCHANGED <<pcStart, connCaller, pcRecv>>
       ELSE /\ pcConn' = "idle"
            /\ connCaller' = "none"
            /\ pcStart' = IF connCaller = "start" THEN "started" ELSE pcStart
            /\ pcRecv' = "top"
            /\ Step("connect_return")
    /\ UNCHANGED <<queueVars, clientVars, pcStop, tasks, closedSinceReady>>

Connect_sleep ==
    Connect_sleep_done(_websocket = "None")

Receive_top_awaits_tasks ==
    /\ pcRecv = "top"
    /\ tasks = EmptyBag
    /\ pcRecv' = IF shutdown THEN "done"
                 ELSE IF _websocket = "None" THEN "crashed"
                 ELSE "receive"
    /\ Step("receive_top")
    /\ UNCHANGED <<queueVars, clientVars, pcStart, pcConn, connCaller, pcStop,
                   tasks, closedSinceReady>>

\* _receive: the loop test, then the call of websocket.receive()
Receive_top ==
    /\ pcRecv = "top"
    /\ pcRecv' = IF shutdown THEN "done"
                 ELSE IF _websocket = "None" THEN "crashed"
                 ELSE "receive"
    /\ Step("receive_top")
    /\ UNCHANGED <<queueVars, clientVars, pcStart, pcConn, connCaller, pcStop,
                   tasks, closedSinceReady>>

\* _receive: a CLOSED message; the handle is cleared and _connect() awaited
Receive_closed ==
    /\ pcRecv = "receive"
    /\ _websocket' = "None"
    /\ pcRecv' = "connecting"
    /\ connCaller' = "receive"
    /\ pcConn' = "attempt"
    /\ closedSinceReady' = TRUE
    /\ Step("receive_closed")
    /\ UNCHANGED <<queueVars, _bot_id, _resume_key, resume_key, shutdown,
                   _session_id, _session, _voice_states, _event_listeners,
                   pcStart, pcStop, tasks>>

\* _receive: a TEXT message; a task is created for _handle_payload
Receive_text(frames) ==
    \E data \in frames :
        /\ pcRecv = "receive"
        /\ _websocket = "open"
        /\ BagCardinality(tasks) < MaxTasks
        /\ tasks' = tasks (+) SetToBag({PayloadTask(data)})
        /\ pcRecv' = "top"
        /\ last' = ClientOp("receive_text", [NoArgs EXCEPT !.frame = data],
                            <<>>, "none", <<>>)
        /\ UNCHANGED <<queueVars, clientVars, pcStart, pcConn, connCaller,
                       pcStop, closedSinceReady>>

\* _receive: a message of any other type is skipped
Receive_other ==
    /\ pcRecv = "receive"
    /\ _websocket = "open"
    /\ pcRecv' = "top"
    /\ Step("receive_other")
    /\ UNCHANGED <<queueVars, clientVars, pcStart, pcConn, connCaller, pcStop,
                   tasks, closedSinceReady>>

Run_handle_payload_crashes_loop ==
    \E task \in BagToSet(tasks) :
        /\ task.kind = "payload"
        /\ \E h \in {handle_payload(task.data, nodeOk) : nodeOk \in BOOLEAN} :
              /\ BagCardinality(tasks) - 1 + Len(h.scheduled) <= MaxTasks
              /\ _session_id' = h._session_id
              /\ tasks' = (tasks (-) SetToBag({task})) (+) BagOfSeq(h.scheduled)
              /\ closedSinceReady' =
                    IF task.data.op = "ready" /\ IsStr(task.data.sessionId)
                    THEN FALSE ELSE closedSinceReady
              /\ pcRecv' = IF h.raised = "none" THEN pcRecv ELSE "crashed"
              /\ last' = ClientOp("handle_payload",
                                  [NoArgs EXCEPT !.frame = task.data],
                                  h.cmds, h.raised, h.scheduled)
        /\ UNCHANGED <<queueVars, _bot_id, _resume_key, resume_key, shutdown,
                       _session, _websocket, _voice_states, _event_listeners,
                       pcStart, pcConn, connCaller, pcStop>>

\* a pending _handle_payload task runs
Run_handle_payload ==
    \E task \in BagToSet(tasks) :
        /\ task.kind = "payload"
        /\ \E h \in {handle_payload(task.data, nodeOk) : nodeOk \in BOOLEAN} :
              /\ BagCardinality(tasks) - 1 + Len(h.scheduled) <= MaxTasks
              /\ _session_id' = h._session_id
              /\ tasks' = (tasks (-) SetToBag({task})) (+) BagOfSeq(h.scheduled)
              /\ closedSinceReady' =
                    IF task.data.op = "ready" /\ IsStr(task.data.sessionId)
                    THEN FALSE ELSE closedSinceReady
              /\ last' = ClientOp("handle_payload",
                                  [NoArgs EXCEPT !.frame = task.data],
                                  h.cmds, h.raised, h.scheduled)
        /\ UNCHANGED <<queueVars, _bot_id, _resume_key, resume_key, shutdown,
                       _session, _websocket, _voice_states, _event_listeners,
                       pcStart, pcConn, connCaller, pcRecv, pcStop>>

\* a pending listener task runs (a user callback: no effect on the client)
Run_listener ==
    \E task \in BagToSet(tasks) :
        /\ task.kind = "listener"
        /\ tasks' = tasks (-) SetToBag({task})
        /\ Step("listener")
        /\ UNCHANGED <<queueVars, clientVars, pcStart, pcConn, connCaller, pcRecv,
                       pcStop, closedSinceReady>>

ListenerArgs(task) == [callback |-> task.callback, event |-> task.event]

Listener_raises_cancels_others ==
    \E task \in BagToSet(tasks) :
        /\ task.kind = "listener"
        /\ tasks' = EmptyBag
        /\ last' = ClientOp("listener", ListenerArgs(task), <<>>, "Exception",
                            <<>>)
        /\ UNCHANGED <<queueVars, clientVars, pcStart, pcConn, connCaller, pcRecv,
                       pcStop, closedSinceReady>>

\* a pending listener task runs and the user callback raises: the exception
\* stays in the task
Listener_raises ==
    \E task \in BagToSet(tasks) :
        /\ task.kind = "listener"
        /\ tasks' = tasks (-) SetToBag({task})
        /\ last' = ClientOp("listener", ListenerArgs(task), <<>>, "Exception",
                            <<>>)
        /\ UNCHANGED <<queueVars, clientVars, pcStart, pcConn, connCaller, pcRecv,
                       pcStop, closedSinceReady>>

\* a listener task that awaits something that never happens
HungTask(task) == [task EXCEPT !.kind = "hung"]
HungCount ==
    BagCardinality([t \in {x \in BagToSet(tasks) : x.kind = "hung"} |->
                       CopiesIn(t, tasks)])

\* a pending listener task starts and never completes: it stays a task of the
\* event loop for ever
Listener_hangs ==
    \E task \in BagToSet(tasks) :
        /\ task.kind = "listener"
        /\ HungCount < MaxHung
        /\ tasks' = (tasks (-) SetToBag({task})) (+) SetToBag({HungTask(task)})
        /\ last' = ClientOp("listener_hangs", ListenerArgs(task), <<>>, "none",
                            <<>>)
        /\ UNCHANGED <<queueVars, clientVars, pcStart, pcConn, connCaller, pcRecv,
                       pcStop, closedSinceReady>>

\* Lavalink.stop, up to its await of session.close()
Stop_begin ==
    /\ pcStop = "idle"
    /\ pcStart # "new"
    /\ shutdown' = TRUE
    /\ pcStop' = "closing"
    /\ Step("stop")
    /\ UNCHANGED <<queueVars, _bot_id, _resume_key, resume_key, _session_id,
                   _session, _websocket, _voice_states, _event_listeners,
                   pcStart, pcConn, connCaller, pcRecv, tasks, closedSinceReady>>

\* Lavalink.stop: the session is closed, then `self.websocket.close()`
Stop_finish ==
    /\ pcStop = "closing"
    /\ _session' = "closed"
    /\ _websocket' = IF _websocket = "None" THEN "None" ELSE "closed"
    /\ pcStop' = IF _websocket = "None" THEN "raised" ELSE "done"
    /\ last' = ClientOp("stop_finish", NoArgs, <<>>,
                        IF _websocket = "None" THEN "RuntimeError" ELSE "none",
                        <<>>)
    /\ UNCHANGED <<queueVars, _bot_id, _resume_key, resume_key, shutdown,
                   _session_id, _voice_states, _event_listeners, pcStart, pcConn,
                   connCaller, pcRecv, tasks, closedSinceReady>>

\* The session-scoped REST operations other than the player commands above:
\* each reads the session_id property to build its path, then sends.
RestCalls == {"get_players", "get_player", "destroy_player", "update_session"}

session_rest_sends_without_session(call, nodeOk) ==
    [cmd |-> call, session |-> _session_id,
     outcome |-> IF _session # "open" THEN "RuntimeError"
                 ELSE IF nodeOk THEN "ok" ELSE "LavalinkError",
     sent |-> _session = "open"]

session_rest(call, nodeOk) ==
    [cmd |-> call, session |-> _session_id,
     outcome |-> IF _session_id = "None" THEN "RuntimeError"
                 ELSE IF _session # "open" THEN "RuntimeError"
                 ELSE IF nodeOk THEN "ok" ELSE "LavalinkError",
     sent |-> _session_id # "None" /\ _session = "open"]

Lavalink_rest ==
    \E call \in RestCalls, nodeOk \in BOOLEAN :
        LET c == session_rest(call, nodeOk) IN
        /\ pcStart # "new"
        /\ last' = ClientOp(call, NoArgs, <<c>>, Raised(c), <<>>)
        /\ UNCHANGED <<queueVars, clientVars, taskVars, closedSinceReady>>

\* Lavalink.update_player called by the user: the voice state check, the path
\* built from session_id, then the request on the aiohttp session
Lavalink_update_player ==
    \E guild_id \in Guilds, encoded_track \in {"None", "A"}, nodeOk \in BOOLEAN :
        LET o == update_player(guild_id, encoded_track, nodeOk)
            outcome == IF o \in {"ValueError", "RuntimeError"} THEN o
                       ELSE IF _session # "open" THEN "RuntimeError"
                       ELSE o
            c == [cmd |-> "update_player", guild_id |-> guild_id,
                  encoded_track |-> encoded_track, session |-> _session_id,
                  outcome |-> outcome,
                  sent |-> outcome \in {"ok", "LavalinkError"}]
        IN  /\ pcStart # "new"
            /\ last' = ClientOp("update_player",
                                [NoArgs EXCEPT !.guild_id = guild_id,
                                               !.track = encoded_track],
                                <<c>>, Raised(c), <<>>)
            /\ UNCHANGED <<queueVars, clientVars, taskVars, closedSinceReady>>

\* Lavalink.__init__
ClientInit ==
    /\ QueueCreated
    /\ _bot_id = 0
    /\ _resume_key = "None"
    /\ resume_key = "None"
    /\ shutdown = FALSE
    /\ _session_id = "None"
    /\ _session = "None"
    /\ _websocket = "None"
    /\ _voice_states = [g \in Guilds |-> NoVoice]
    /\ _event_listeners = [t \in EventTypes |-> <<>>]
    /\ pcStart = "new"
    /\ pcConn = "idle"
    /\ connCaller = "none"
    /\ pcRecv = "none"
    /\ pcStop = "idle"
    /\ tasks = EmptyBag
    /\ closedSinceReady = FALSE
    /\ last = InitLast

\* The connection life cycle, against a node that may refuse connections and
\* close the socket, and a user who may stop the client.
ConnNext ==
    \/ Lavalink_start
    \/ Connect_ok
    \/ Connect_refused
    \/ Connect_session_closed
    \/ Connect_sleep
    \/ Receive_top
    \/ Receive_closed
    \/ Receive_text(ValidReadyFrames)
    \/ Receive_other
    \/ Run_handle_payload
    \/ Stop_begin
    \/ Stop_finish
    \/ Lavalink_rest

SpecConn == ClientInit /\ [][ConnNext]_vars

\* The life of a client whose start() has returned: the receive loop, the
\* reconnection after a CLOSED message, and a user who may stop the client.
StopNext ==
    \/ Connect_ok
    \/ Connect_refused
    \/ Connect_session_closed
    \/ Connect_sleep
    \/ Receive_top
    \/ Receive_closed
    \/ Receive_text(ValidReadyFrames)
    \/ Receive_other
    \/ Run_handle_payload
    \/ Stop_begin
    \/ Stop_finish

SpecStop == Init /\ [][StopNext]_vars

\* The asyncio loop runs every task that is ready; a node that accepts
\* connections again and again is met by a client that keeps trying.
SpecConnLive ==
    /\ SpecConn
    /\ WF_vars(Connect_sleep)
    /\ WF_vars(Receive_top)
    /\ SF_vars(Connect_ok)

\* Frames of every kind, handled and dispatched to registered listeners, on a
\* connection that stays up.
DispatchNext ==
    \/ Lavalink_listen
    \/ Lavalink_start
    \/ Connect_ok
    \/ Connect_sleep
    \/ Receive_top
    \/ Receive_text(AllFrames)
    \/ Run_handle_payload
    \/ Run_listener

SpecDispatch == ClientInit /\ [][DispatchNext]_vars

\* Frame handling with every kind of frame: well-formed ones, frames that fail
\* to decode, and frames of unknown op or type; listeners may raise.
FrameInputs ==
    {ReadyFrame("s1", "false"), ReadyFrame("s1", "<absent>"), StatsFrame,
     UnknownFrame, InvalidJsonFrame, MissingOpFrame, EventFrame("PlayerMoved")}

FramesNext ==
    \/ Lavalink_listen
    \/ Lavalink_start
    \/ Connect_ok
    \/ Connect_sleep
    \/ Receive_top
    \/ Receive_text(FrameInputs)
    \/ Run_handle_payload
    \/ Run_listener
    \/ Listener_raises

SpecFrames == ClientInit /\ [][FramesNext]_vars

\* Reception while listeners hang: Lavalink.__init__ followed by one listen()
\* call for ReadyEvent and one for StatsEvent, then frames the node keeps
\* sending on a connection that stays up.
StallInit ==
    /\ QueueCreated
    /\ _bot_id = 0
    /\ _resume_key = "None"
    /\ resume_key = "None"
    /\ shutdown = FALSE
    /\ _session_id = "None"
    /\ _session = "None"
    /\ _websocket = "None"
    /\ _voice_states = [g \in Guilds |-> NoVoice]
    /\ _event_listeners =
          [t \in EventTypes |-> IF t = "ReadyEvent" THEN <<"cb1">>
                                ELSE IF t = "StatsEvent" THEN <<"cb2">>
                                ELSE <<>>]
    /\ pcStart = "new"
    /\ pcConn = "idle"
    /\ connCaller = "none"
    /\ pcRecv = "none"
    /\ pcStop = "idle"
    /\ tasks = EmptyBag
    /\ closedSinceReady = FALSE
    /\ last = InitLast

StallFrames == {ReadyFrame("s1", "false"), ReadyFrame("s2", "true"), StatsFrame}

StallNext ==
    \/ Lavalink_start
    \/ Connect_ok
    \/ Connect_sleep
    \/ Receive_top
    \/ Receive_text(StallFrames)
    \/ Receive_other
    \/ Run_handle_payload
    \/ Run_listener
    \/ Listener_hangs

\* the _handle_payload task of one frame runs
Run_payload_of(data) == Run_handle_payload /\ last'.args.frame = data

\* The asyncio loop runs every task that is ready, in the order they became
\* ready: the receive loop and every _handle_payload task get their turn.
\* Nothing is assumed about listeners: they may complete or hang.
SpecStall ==
    /\ StallInit /\ [][StallNext]_vars
    /\ WF_vars(Connect_sleep)
    /\ WF_vars(Receive_top)
    /\ \A data \in StallFrames : WF_vars(Run_payload_of(data))

(***************************************************************************)
(* Discord voice updates.  A guild's record in _voice_states is the        *)
(* VoiceState object, or NoVoice when the dict has no entry for the guild. *)
(***************************************************************************)
OtherUser == 8                         \* a user that is not the bot
Users == {BotId, OtherUser}
Endpoints == {"None", "", "ep2", "wss://ep2", "ep2/wss://x"}
Tokens == {"tok2"}
VoiceSessions == {"v2"}

\* endpoint.replace("wss://", ""): every occurrence is removed
str_replace_wss(endpoint) ==
    CASE endpoint = "wss://ep2"   -> "ep2"
      [] endpoint = "ep2/wss://x" -> "ep2/x"
      [] OTHER                    -> endpoint

UpdatePlayerTask(guild_id) ==
    [kind |-> "update_player", data |-> NoFrame, callback |-> "None",
     event |-> NoEventObject, guild_id |-> guild_id]

handle_voice_server_update_keeps_scheme(states, guild_id, endpoint, token) ==
    IF states[guild_id].present
    THEN [states |-> [states EXCEPT
                         ![guild_id].endpoint =
                             IF Truthy(endpoint) THEN endpoint ELSE @,
                         ![guild_id].token = token],
          scheduled |-> IF Truthy(endpoint)
                        THEN <<UpdatePlayerTask(guild_id)>> ELSE <<>>]
    ELSE [states |-> states, scheduled |-> <<>>]

\* Lavalink.handle_voice_server_update: the records after the call and the
\* task it creates
handle_voice_server_update(states, guild_id, endpoint, token) ==
    IF states[guild_id].present
    THEN [states |-> [states EXCEPT
                         ![guild_id].endpoint =
                             IF Truthy(endpoint) THEN str_replace_wss(endpoint)
                                                 ELSE @,
                         ![guild_id].token = token],
          scheduled |-> IF Truthy(endpoint)
                        THEN <<UpdatePlayerTask(guild_id)>> ELSE <<>>]
    ELSE [states |-> states, scheduled |-> <<>>]

handle_voice_state_update_any_user(states, bot, guild_id, user_id, session_id) ==
    IF bot = 0
    THEN [states |-> states, raised |-> "RuntimeError"]
    ELSE IF states[guild_id].present
    THEN [states |-> [states EXCEPT ![guild_id].session_id = session_id],
          raised |-> "none"]
    ELSE [states |-> [states EXCEPT ![guild_id] =
                         [present |-> TRUE, token |-> "", endpoint |-> "",
                          session_id |-> session_id]],
          raised |-> "none"]

\* Lavalink.handle_voice_state_update
handle_voice_state_update(states, bot, guild_id, user_id, session_id) ==
    IF bot = 0
    THEN [states |-> states, raised |-> "RuntimeError"]
    ELSE IF user_id # bot
    THEN [states |-> states, raised |-> "none"]
    ELSE IF states[guild_id].present
    THEN [states |-> [states EXCEPT ![guild_id].session_id = session_id],
          raised |-> "none"]
    ELSE [states |-> [states EXCEPT ![guild_id] =
                         [present |-> TRUE, token |-> "", endpoint |-> "",
                          session_id |-> session_id]],
          raised |-> "none"]

\* The previous voice update, as the record of the next one keeps it.
NoVoiceOp == [op |-> "none", guild_id |-> 0, user_id |-> 0, endpoint |-> "None",
              token |-> "None", session_id |-> "None"]

VoiceOps == {"voice_server_update", "voice_state_update"}

Before ==
    IF last.op \in VoiceOps
    THEN [op |-> last.op, guild_id |-> last.args.guild_id,
          user_id |-> last.args.user_id, endpoint |-> last.args.endpoint,
          token |-> last.args.token, session_id |-> last.args.session_id]
    ELSE NoVoiceOp

VoiceArgs(guild_id, user_id, endpoint, token, session_id) ==
    [guild_id |-> guild_id, user_id |-> user_id, endpoint |-> endpoint,
     token |-> token, session_id |-> session_id,
     pre |-> _voice_states[guild_id], pre_states |-> _voice_states,
     before |-> Before]

Lavalink_handle_voice_server_update ==
    \E guild_id \in Guilds, endpoint \in Endpoints, token \in Tokens :
        LET r == handle_voice_server_update(_voice_states, guild_id, endpoint,
                                            token) IN
        /\ BagCardinality(tasks) + Len(r.scheduled) <= MaxTasks
        /\ _voice_states' = r.states
        /\ tasks' = tasks (+) BagOfSeq(r.scheduled)
        /\ last' = ClientOp("voice_server_update",
                            VoiceArgs(guild_id, 0, endpoint, token, "None"),
                            <<>>, "none", r.scheduled)
        /\ UNCHANGED <<queueVars, _bot_id, _resume_key, resume_key, shutdown,
                       _session_id, _session, _websocket, _event_listeners,
                       pcStart, pcConn, connCaller, pcRecv, pcStop,
                       closedSinceReady>>

Lavalink_handle_voice_state_update ==
    \E guild_id \in Guilds, user_id \in Users, session_id \in VoiceSessions :
        LET r == handle_voice_state_update(_voice_states, _bot_id, guild_id,
                                           user_id, session_id) IN
        /\ _voice_states' = r.states
        /\ last' = ClientOp("voice_state_update",
                            VoiceArgs(guild_id, user_id, "None", "None",
                                      session_id),
                            <<>>, r.raised, <<>>)
        /\ UNCHANGED <<queueVars, _bot_id, _resume_key, resume_key, shutdown,
                       _session_id, _session, _websocket, _event_listeners,
                       taskVars, closedSinceReady>>

\* The task handle_voice_server_update created runs:
\* update_player(guild_id, voice=self._voice_states[guild_id])
Run_update_player ==
    \E task \in BagToSet(tasks), nodeOk \in BOOLEAN :
        /\ task.kind = "update_player"
        /\ tasks' = tasks (-) SetToBag({task})
        /\ LET c == [cmd |-> "update_player", guild_id |-> task.guild_id,
                     voice |-> _voice_states[task.guild_id],
                     session |-> _session_id,
                     outcome |-> update_player(task.guild_id, "None", nodeOk)]
           IN  last' = ClientOp("update_player",
                                [NoArgs EXCEPT !.guild_id = task.guild_id],
                                <<c>>, Raised(c), <<>>)
        /\ UNCHANGED <<queueVars, clientVars, pcStart, pcConn, connCaller,
                       pcRecv, pcStop, closedSinceReady>>

\* Voice updates on the connected client of Init: QueueGuild has a voice state,
\* OtherGuild has none yet.
VoiceNext ==
    \/ Lavalink_handle_voice_server_update
    \/ Lavalink_handle_voice_state_update
    \/ Run_update_player

SpecVoice == Init /\ [][VoiceNext]_vars

\* REST calls of the user around the first ready frame: the client is started,
\* the bot may already have joined a voice channel, the node sends ready.
RestNext ==
    \/ Lavalink_start
    \/ Connect_ok
    \/ Connect_sleep
    \/ Receive_top
    \/ Receive_text(ValidReadyFrames)
    \/ Run_handle_payload
    \/ Lavalink_handle_voice_state_update
    \/ Lavalink_rest
    \/ Lavalink_update_player

SpecRest == ClientInit /\ [][RestNext]_vars

(***************************************************************************)
(* Deleting and re-creating a guild's queue.  The Queue object that was    *)
(* deleted keeps its fields (the user may still hold it) and its bound     *)
(* method track_events stays in the client's registry: no code removes a   *)
(* listener.                                                               *)
(***************************************************************************)
QueueEventTypes == {"TrackEndEvent", "TrackStuckEvent", "TrackExceptionEvent"}

\* PlayerManager.delete_queue: `del self.queues[guild_id]`
delete_queue(qs, guild_id) ==
    IF qs[guild_id] = "None"
    THEN [queues |-> qs, raised |-> "KeyError"]
    ELSE [queues |-> [qs EXCEPT ![guild_id] = "None"], raised |-> "none"]

PlayerManager_delete_queue ==
    \E guild_id \in Guilds :
        LET r == delete_queue(queues, guild_id) IN
        /\ queues' = r.queues
        /\ last' = Op("delete_queue", [NoArgs EXCEPT !.guild_id = guild_id],
                      <<>>, r.raised, "None")
        /\ UNCHANGED <<queue, now_playing_pos, is_paused, repeat_mode, player, clientVars,
                       taskVars, closedSinceReady>>

\* PlayerManager.destroy: destroy_player is awaited, then delete_queue
PlayerManager_destroy ==
    \E guild_id \in Guilds, nodeOk \in BOOLEAN :
        LET c == session_rest("destroy_player", nodeOk)
            r == IF c.outcome = "ok" THEN delete_queue(queues, guild_id)
                 ELSE [queues |-> queues, raised |-> c.outcome]
        IN  /\ queues' = r.queues
            /\ last' = Op("destroy", [NoArgs EXCEPT !.guild_id = guild_id],
                          <<c>>, r.raised, "None")
            /\ UNCHANGED <<queue, now_playing_pos, is_paused, repeat_mode,
                           player, clientVars, taskVars, closedSinceReady>>

\* PlayerManager.create_queue: a new Queue, whose __init__ registers its own
\* track_events for the three lifecycle events
PlayerManager_create_queue ==
    \E guild_id \in Guilds :
        /\ Len(_event_listeners["TrackEndEvent"]) < MaxListeners
        /\ IF queues[guild_id] # "None"
           THEN /\ last' = Op("create_queue",
                              [NoArgs EXCEPT !.guild_id = guild_id], <<>>,
                              "QueueAlreadyExists", "None")
                /\ UNCHANGED <<queues, _event_listeners>>
           ELSE /\ queues' = [queues EXCEPT ![guild_id] = "newer"]
                /\ _event_listeners' =
                      [t \in EventTypes |->
                          IF t \in QueueEventTypes
                          THEN Append(_event_listeners[t], "newer.track_events")
                          ELSE _event_listeners[t]]
                /\ last' = Op("create_queue",
                              [NoArgs EXCEPT !.guild_id = guild_id], <<>>,
                              "none", "None")
        /\ UNCHANGED <<queue, now_playing_pos, is_paused, repeat_mode, player, _bot_id,
                       _resume_key, resume_key, shutdown, _session_id, _session,
                       _websocket, _voice_states, taskVars, closedSinceReady>>

\* the track_events of the Queue created first is registered for the three
\* lifecycle events
QueueListenerRegistered ==
    \A t \in QueueEventTypes :
        \E i \in 1..Len(_event_listeners[t]) :
            _event_listeners[t][i] = "track_events"

\* dispatch of a lifecycle event runs that listener
Listener_track_events ==
    /\ QueueListenerRegistered
    /\ Queue_track_events

DeleteNext ==
    \/ Queue_add
    \/ Listener_track_events
    \/ PlayerManager_delete_queue
    \/ PlayerManager_destroy
    \/ PlayerManager_create_queue

SpecDelete == Init /\ [][DeleteNext]_vars

(***************************************************************************)
(* Playback: the queue together with the node's player.  The node holds    *)
(* the track of the last play command it accepted; when that track ends it *)
(* sends TrackEnd(FINISHED) for it, and the queue's listener runs.         *)
(***************************************************************************)

\* the node's player after the commands an operation awaited
NodeAfter(p, cmds) ==
    IF cmds = <<>> THEN p
    ELSE LET c == cmds[Len(cmds)] IN
         IF c.outcome # "ok" \/ c.guild_id # QueueGuild THEN p
         ELSE IF c.cmd = "play" THEN c.encoded_track
         ELSE IF c.cmd = "stop" THEN "None"
         ELSE p

PlaybackEffect(name, args, r, p) ==
    /\ queue' = r.queue
    /\ now_playing_pos' = r.now_playing_pos
    /\ player' = NodeAfter(p, r.cmds)
    /\ last' = Op(name, args, r.cmds, r.raised, r.ret)
    /\ UNCHANGED <<is_paused, repeat_mode, queues, clientVars, taskVars,
                   closedSinceReady>>

\* Queue.add, and the node's answer to its command
Playback_add ==
    /\ Len(queue) < MaxLen
    /\ \E track \in Tracks :
          \E r \in {add(queue, now_playing_pos, is_paused, track, nodeOk) :
                        nodeOk \in BOOLEAN} :
              PlaybackEffect("add", [NoArgs EXCEPT !.track = track], r, player)

\* the event the node sends when the track it plays ends
FinishedEvent(track) ==
    [kind |-> "TrackEndEvent", guild_id |-> QueueGuild, encoded_track |-> track,
     reason |-> "FINISHED"]

\* the track the node plays ends: TrackEnd(FINISHED) is dispatched and
\* Queue.track_events runs
Track_finishes ==
    /\ player # "None"
    /\ \E r \in {track_events(FinishedEvent(player), queue, now_playing_pos,
                               is_paused, repeat_mode, nodeOk) :
                      nodeOk \in BOOLEAN} :
          PlaybackEffect("track_events",
                         [NoArgs EXCEPT !.event = FinishedEvent(player)], r,
                         "None")

\* Repeat mode none, never paused: tracks are added and played tracks end.
PlaybackNext ==
    \/ Playback_add
    \/ Track_finishes

\* Every track the node plays ends at some point.
SpecPlayback ==
    /\ Init /\ [][PlaybackNext]_vars
    /\ WF_vars(Track_finishes)

\* Repeat mode all: a queue that holds tracks and plays its first one, on the
\* connected client of Init.
RepeatAllInit ==
    /\ queue \in SeqsUpTo(Tracks, MaxLen) \ {<<>>}
    /\ now_playing_pos = 0
    /\ is_paused = FALSE
    /\ repeat_mode = "all"
    /\ queues = [g \in Guilds |-> IF g = QueueGuild THEN "queue" ELSE "None"]
    /\ player = queue[1]
    /\ _bot_id = BotId
    /\ _resume_key = "None"
    /\ resume_key = "None"
    /\ shutdown = FALSE
    /\ _session_id = "s1"
    /\ _session = "open"
    /\ _websocket = "open"
    /\ _voice_states = [g \in Guilds |->
                            IF g = QueueGuild
                            THEN [present |-> TRUE, token |-> "tok",
                                  endpoint |-> "ep", session_id |-> "v1"]
                            ELSE NoVoice]
    /\ _event_listeners = QueueListeners
    /\ pcStart = "started"
    /\ pcConn = "idle"
    /\ connCaller = "none"
    /\ pcRecv = "receive"
    /\ pcStop = "idle"
    /\ tasks = EmptyBag
    /\ closedSinceReady = FALSE
    /\ last = InitLast

\* Every track the node plays ends at some point.
SpecRepeatAll ==
    /\ RepeatAllInit /\ [][PlaybackNext]_vars
    /\ WF_vars(Track_finishes)

\* Queue.next, Queue.previous and Queue.skip_to on a paused queue: they issue
\* no command, so the node's player is left as it is
Paused_next == is_paused /\ Queue_next
Paused_previous == is_paused /\ Queue_previous
Paused_skip_to == is_paused /\ Queue_skip_to

\* A queue whose node plays the track at its cursor (ShuffleInit) is paused,
\* its cursor is moved while it is paused, and it is resumed.
ResumeNext ==
    \/ PlayerManager_pause
    \/ Paused_next
    \/ Paused_previous
    \/ Paused_skip_to
    \/ PlayerManager_resume

SpecResume == ShuffleInit /\ [][ResumeNext]_vars

(***************************************************************************)
(* A manual cursor move and a track-end auto-advance for the same guild,   *)
(* as two coroutines of the event loop.  Each runs without suspension up   *)
(* to the await of its HTTP request (the cursor is moved, the track is     *)
(* read from it and the request is handed to aiohttp); nothing orders the  *)
(* two requests after that, so the node may receive them in either order.  *)
(***************************************************************************)
CoroutineTask(name) ==
    [kind |-> name, data |-> NoFrame, callback |-> "None",
     event |-> NoEventObject]
RequestTask(c) ==
    [kind |-> "request", data |-> NoFrame, callback |-> "None",
     event |-> NoEventObject, cmd |-> c]

\* the requests a coroutine hands to aiohttp: the commands that passed
\* update_player's checks
Requests(cmds) ==
    BagOfSeq([i \in 1..Len(cmds) |-> RequestTask(cmds[i])])

\* the user's coroutine: Queue.skip_to, Queue.next or Queue.previous
ManualMoves ==
    {skip_to(queue, now_playing_pos, is_paused, index, TRUE) :
        index \in 0..Len(queue)}
    \cup {next(queue, now_playing_pos, is_paused, TRUE),
          previous(queue, now_playing_pos, is_paused, TRUE)}

FinishedEvents ==
    {ev \in LifecycleEvents :
        /\ ev.kind = "TrackEndEvent"
        /\ ev.reason = "FINISHED"
        /\ ev.guild_id = QueueGuild}

\* a coroutine runs up to the await of its request
Coroutine_runs(name, r) ==
    /\ BagIn(CoroutineTask(name), tasks)
    /\ queue' = r.queue
    /\ now_playing_pos' = r.now_playing_pos
    /\ tasks' = (tasks (-) SetToBag({CoroutineTask(name)})) (+) Requests(r.cmds)
    /\ last' = Op(name, NoArgs, r.cmds, "none", "None")
    /\ UNCHANGED <<is_paused, repeat_mode, queues, player, clientVars, pcStart, pcConn,
                   connCaller, pcRecv, pcStop, closedSinceReady>>

Manual_move ==
    \E r \in ManualMoves : Coroutine_runs("manual_move", r)

Auto_advance ==
    \E ev \in FinishedEvents :
        Coroutine_runs("auto_advance",
                       track_events(ev, queue, now_playing_pos, is_paused,
                                    repeat_mode, TRUE))

\* the node receives one of the requests in flight and answers it
Node_receives ==
    \E task \in BagToSet(tasks) :
        /\ task.kind = "request"
        /\ tasks' = tasks (-) SetToBag({task})
        /\ last' = Op("node_receives",
                      [NoArgs EXCEPT !.track = task.cmd.encoded_track],
                      <<task.cmd>>, "none", "None")
        /\ UNCHANGED <<queueVars, clientVars, pcStart, pcConn, connCaller, pcRecv,
                       pcStop, closedSinceReady>>

\* A queue that is playing one of its tracks on the connected client of Init;
\* both coroutines are scheduled.
RaceInit ==
    /\ queue \in SeqsUpTo(Tracks, MaxLen) \ {<<>>}
    /\ now_playing_pos \in 0..(Len(queue) - 1)
    /\ is_paused = FALSE
    /\ repeat_mode = "none"
    /\ queues = [g \in Guilds |-> IF g = QueueGuild THEN "queue" ELSE "None"]
    /\ player = now_playing(queue, now_playing_pos)
    /\ _bot_id = BotId
    /\ _resume_key = "None"
    /\ resume_key = "None"
    /\ shutdown = FALSE
    /\ _session_id = "s1"
    /\ _session = "open"
    /\ _websocket = "open"
    /\ _voice_states = [g \in Guilds |->
                            IF g = QueueGuild
                            THEN [present |-> TRUE, token |-> "tok",
                                  endpoint |-> "ep", session_id |-> "v1"]
                            ELSE NoVoice]
    /\ _event_listeners = QueueListeners
    /\ pcStart = "started"
    /\ pcConn = "idle"
    /\ connCaller = "none"
    /\ pcRecv = "receive"
    /\ pcStop = "idle"
    /\ tasks = SetToBag({CoroutineTask("manual_move"),
                         CoroutineTask("auto_advance")})
    /\ closedSinceReady = FALSE
    /\ last = InitLast

RaceNext ==
    \/ Manual_move
    \/ Auto_advance
    \/ Node_receives

SpecRace == RaceInit /\ [][RaceNext]_vars

(***************************************************************************)
(* Properties of the client.                                               *)
(***************************************************************************)

\* C2: while stop() has not been called, after a connect failure or a CLOSED
\* frame the client keeps retrying without a maximum: with a node that
\* eventually accepts, it is eventually connected and receiving again.
C2_RetriesUntilConnected ==
    (pcConn # "idle" /\ ~shutdown)
        ~> (shutdown \/ (pcRecv = "receive" /\ _websocket = "open"))

C2_Witness ==
    /\ closedSinceReady
    /\ ~shutdown
    /\ last.op = "receive_top"
    /\ pcRecv = "receive"
    /\ _websocket = "open"

\* C3: after stop() has been called no connection attempt is started, whatever
\* frame the receive loop observes next.
C3_NoAttemptAfterStop ==
    last.pre.shutdown => last.op \notin {"receive_closed", "connect_retry"}

ReadyHandled ==
    /\ last.op = "handle_payload"
    /\ last.args.frame.op = "ready"

ValidReady(data) == IsStr(data.sessionId) /\ IsBool(data.resumed)

\* one task per callback registered for ReadyEvent, in order, each with the
\* Ready event of the frame
ReadyListenerTasks(data) ==
    [i \in 1..Len(_event_listeners["ReadyEvent"]) |->
        ListenerTask(_event_listeners["ReadyEvent"][i],
                     [type |-> "ReadyEvent", resumed |-> (data.resumed = "true"),
                      session_id |-> data.sessionId])]

\* C4 as stated: for every ready frame received, the recorded session ID is the
\* frame's sessionId and each listener registered for Ready is invoked exactly
\* once with a Ready event whose resumed and session_id are the frame's.
C4_EveryReadyFrame ==
    ReadyHandled =>
        /\ _session_id = last.args.frame.sessionId
        /\ last.scheduled = ReadyListenerTasks(last.args.frame)

\* C4 (amended): the same for every valid ready frame, one whose sessionId is a
\* string and whose resumed is a boolean.
C4_EveryValidReadyFrame ==
    (ReadyHandled /\ ValidReady(last.args.frame)) =>
        /\ _session_id = last.args.frame.sessionId
        /\ last.raised = "none"
        /\ last.scheduled = ReadyListenerTasks(last.args.frame)

C4_Witness ==
    /\ ReadyHandled
    /\ last.args.frame = ReadyFrame("s2", "true")
    /\ _event_listeners["ReadyEvent"] = <<"cb2", "cb1">>
    /\ _event_listeners["StatsEvent"] = <<"cb2">>
    /\ _session_id = "s2"
    /\ Len(last.scheduled) = 2
    /\ last.scheduled[1].callback = "cb2"
    /\ last.scheduled[2].event.resumed

\* C5: once the receive loop has observed a CLOSED frame, and until the next
\* ready frame is processed, a session-scoped REST call finds no session ID and
\* raises instead of using the old one.
C5_ClosedClearsSession ==
    (closedSinceReady /\ last.op \in RestCalls) =>
        /\ last.cmds[1].session = "None"
        /\ last.raised = "RuntimeError"

\* C6: when start() was given a resume key, handling a ready frame issues a
\* session-update call carrying that key, for the session ID just recorded.
C6_ReadyUpdatesSession ==
    (ReadyHandled /\ ValidReady(last.args.frame) /\ Truthy(_resume_key)) =>
        /\ Len(last.cmds) = 1
        /\ last.cmds[1].cmd = "update_session"
        /\ last.cmds[1].resuming_key = _resume_key
        /\ last.cmds[1].session = last.args.frame.sessionId

ServerUpdateThenStateUpdate ==
    /\ last.op = "voice_state_update"
    /\ last.args.user_id = BotId
    /\ last.args.before.op = "voice_server_update"
    /\ last.args.before.guild_id = last.args.guild_id
    /\ last.args.before.endpoint \in {"ep2", "wss://ep2"}

StateUpdateThenServerUpdate ==
    /\ last.op = "voice_server_update"
    /\ last.args.endpoint \in {"ep2", "wss://ep2"}
    /\ last.args.before.op = "voice_state_update"
    /\ last.args.before.user_id = BotId
    /\ last.args.before.guild_id = last.args.guild_id

VoiceRecordHolds(guild_id, token, session_id) ==
    /\ _voice_states[guild_id].present
    /\ _voice_states[guild_id].token = token
    /\ _voice_states[guild_id].endpoint = "ep2"
    /\ _voice_states[guild_id].session_id = session_id

\* C19: whichever of the voice-server-update and the bot's voice-state-update
\* of a guild is handled first, once both are handled the guild's record holds
\* the token and endpoint of the server update and the session ID of the state
\* update.
C19_VoiceUpdatesInEitherOrder ==
    /\ ServerUpdateThenStateUpdate =>
           VoiceRecordHolds(last.args.guild_id, last.args.before.token,
                            last.args.session_id)
    /\ StateUpdateThenServerUpdate =>
           VoiceRecordHolds(last.args.guild_id, last.args.token,
                            last.args.before.session_id)

C20_Case ==
    /\ last.op = "voice_server_update"
    /\ last.args.pre.present

\* "the wss:// prefix stripped", for the endpoints of the model
StripPrefix(endpoint) == IF endpoint = "wss://ep2" THEN "ep2" ELSE endpoint

\* C20 as stated: for a guild with a tracked voice state the handler stores the
\* token and, when endpoint is present, the endpoint with the wss:// prefix
\* stripped; an absent endpoint leaves the stored one unchanged; the stored
\* session ID is not changed.
C20_ServerUpdateStripsPrefix ==
    C20_Case =>
        LET v == _voice_states[last.args.guild_id] IN
        /\ v.token = last.args.token
        /\ v.endpoint = IF last.args.endpoint # "None"
                        THEN StripPrefix(last.args.endpoint)
                        ELSE last.args.pre.endpoint
        /\ v.session_id = last.args.pre.session_id

\* C20 (amended): the handler stores the token and, when endpoint is a
\* non-empty string, the endpoint with every occurrence of wss:// removed; an
\* absent or empty endpoint leaves the stored one unchanged; the stored session
\* ID is not changed.
C20_ServerUpdateRemovesScheme ==
    C20_Case =>
        LET v == _voice_states[last.args.guild_id]
            e == last.args.endpoint
        IN  /\ v.token = last.args.token
            /\ v.endpoint = CASE e \in {"None", ""}   -> last.args.pre.endpoint
                              [] e = "wss://ep2"      -> "ep2"
                              [] e = "ep2/wss://x"    -> "ep2/x"
                              [] OTHER                -> e
            /\ v.session_id = last.args.pre.session_id

C20_Witness ==
    /\ C20_Case
    /\ last.args.guild_id = OtherGuild
    /\ last.args.endpoint = "wss://ep2"
    /\ last.args.pre.endpoint = ""
    /\ _voice_states[OtherGuild].endpoint = "ep2"
    /\ _voice_states[OtherGuild].token = "tok2"
    /\ _voice_states[OtherGuild].session_id = "v2"

StateUpdateHandled ==
    /\ last.op = "voice_state_update"
    /\ last.raised = "none"

\* C21: handle_voice_state_update changes nothing when the user is not the
\* bot; otherwise it sets the guild's voice session ID, creating a record with
\* empty token and endpoint if none exists and keeping the token and endpoint
\* of an existing record; the records of other guilds are not touched.
C21_StateUpdateSetsSession ==
    StateUpdateHandled =>
        LET g   == last.args.guild_id
            old == last.args.pre
            v   == _voice_states[g]
        IN  IF last.args.user_id # BotId
            THEN _voice_states = last.args.pre_states
            ELSE /\ v.present
                 /\ v.session_id = last.args.session_id
                 /\ v.token = (IF old.present THEN old.token ELSE "")
                 /\ v.endpoint = (IF old.present THEN old.endpoint ELSE "")
                 /\ \A h \in Guilds \ {g} :
                        _voice_states[h] = last.args.pre_states[h]

C21_Witness ==
    /\ StateUpdateHandled
    /\ last.args.user_id = BotId
    /\ last.args.guild_id = OtherGuild
    /\ ~last.args.pre.present
    /\ _voice_states[OtherGuild] =
           [present |-> TRUE, token |-> "", endpoint |-> "", session_id |-> "v2"]
    /\ _voice_states[QueueGuild].session_id = "v1"

\* the step is a _handle_payload task that ended with an exception of decoding
DecodeFailedStep ==
    /\ tasks' # tasks
    /\ last'.op = "handle_payload"
    /\ last'.raised \in {"JSONDecodeError", "KeyError", "AssertionError"}

\* C23: a frame that fails to decode ends only its own task: the receive loop
\* stays where it is, and the other pending frames and listeners stay pending.
C23_DecodeFailureIsLocal ==
    [][DecodeFailedStep =>
          /\ pcRecv' = pcRecv
          /\ pcRecv \in {"top", "receive"}
          /\ tasks' = tasks (-) SetToBag({PayloadTask(last'.args.frame)})
          /\ _event_listeners' = _event_listeners
          /\ _websocket' = _websocket]_vars

C23_Witness ==
    /\ last.op = "handle_payload"
    /\ last.args.frame = InvalidJsonFrame
    /\ last.raised = "JSONDecodeError"
    /\ pcRecv = "receive"
    /\ BagIn(PayloadTask(ReadyFrame("s1", "false")), tasks)
    /\ Len(_event_listeners["ReadyEvent"]) = 2

ListenerRaisedStep ==
    /\ tasks' # tasks
    /\ last'.op = "listener"
    /\ last'.raised # "none"

\* C24: when a listener raises, only its own task ends: the tasks of the other
\* listeners stay pending, the registry is unchanged and the receive loop stays
\* where it is.
C24_ListenerExceptionIsLocal ==
    [][ListenerRaisedStep =>
          /\ tasks' = tasks (-) SetToBag({ListenerTask(last'.args.callback,
                                                      last'.args.event)})
          /\ BagCardinality(tasks') = BagCardinality(tasks) - 1
          /\ _event_listeners' = _event_listeners
          /\ pcRecv' = pcRecv]_vars

C24_Witness ==
    /\ last.op = "listener"
    /\ last.raised = "Exception"
    /\ last.args.callback = "cb1"
    /\ last.args.event.type = "ReadyEvent"
    /\ BagIn(ListenerTask("cb2", last.args.event), tasks)
    /\ _event_listeners["ReadyEvent"] = <<"cb1", "cb2">>
    /\ pcRecv \in {"top", "receive"}

\* the event class _handle_payload dispatches for a frame
Variant(data) ==
    CASE data.op = "ready"        -> "ReadyEvent"
      [] data.op = "stats"        -> "StatsEvent"
      [] data.op = "playerUpdate" -> "PlayerUpdateEvent"
      [] OTHER                    -> data.type

Dispatches(data) ==
    \/ data.op \in {"ready", "stats", "playerUpdate"}
    \/ data.op = "event" /\ data.type \in KnownEventTypes

DispatchStep ==
    /\ tasks' # tasks
    /\ last'.op = "handle_payload"
    /\ last'.raised = "none"
    /\ Dispatches(last'.args.frame)

IsPrefix(a, b) == Len(a) <= Len(b) /\ SubSeq(b, 1, Len(a)) = a

\* C25: dispatch of an event of variant V schedules the callbacks registered
\* under V, once per registration and in registration order, and no callback of
\* another variant; no step (listen included) removes or reorders registrations.
C25_DispatchFollowsRegistry ==
    [][/\ DispatchStep =>
            LET V == Variant(last'.args.frame) IN
            /\ Len(last'.scheduled) = Len(_event_listeners[V])
            /\ \A i \in 1..Len(last'.scheduled) :
                  /\ last'.scheduled[i].callback = _event_listeners[V][i]
                  /\ last'.scheduled[i].event.type = V
       /\ \A t \in EventTypes :
              IsPrefix(_event_listeners[t], _event_listeners'[t])]_vars

C25_Witness ==
    /\ last.op = "handle_payload"
    /\ last.args.frame = StatsFrame
    /\ _event_listeners["ReadyEvent"] = <<"cb1", "cb2">>
    /\ _event_listeners["StatsEvent"] = <<"cb2", "cb2">>
    /\ Len(last.scheduled) = 2
    /\ last.scheduled[1].event.type = "StatsEvent"

UnknownHandled ==
    /\ last.op = "handle_payload"
    /\ \/ last.args.frame.op \notin
              {"ready", "playerUpdate", "stats", "event", "<absent>",
               "<invalid json>"}
       \/ /\ last.args.frame.op = "event"
          /\ last.args.frame.type \notin KnownEventTypes \cup {"<absent>"}

\* C26: a frame of unknown op, or an event frame of unknown type, raises no
\* error, schedules no listener and leaves the session ID unchanged.
C26_UnknownFrameIgnored ==
    UnknownHandled =>
        /\ last.raised = "none"
        /\ last.scheduled = <<>>
        /\ last.cmds = <<>>
        /\ _session_id = last.pre._session_id

C26_Witness ==
    /\ UnknownHandled
    /\ last.args.frame = EventFrame("PlayerMoved")
    /\ _event_listeners["ReadyEvent"] # <<>>
    /\ _event_listeners["StatsEvent"] # <<>>
    /\ _session_id = "s1"
    /\ last.raised = "none"

ListenerHung == HungCount = MaxHung

\* C22: while listeners hang for ever, the receive loop still goes back to
\* websocket.receive(), and every frame it has read is still handled and its
\* listener scheduled.
C22_HungListenerDoesNotStall ==
    /\ (ListenerHung /\ pcRecv = "top") ~> (pcRecv = "receive")
    /\ \A data \in StallFrames :
          (ListenerHung /\ BagIn(PayloadTask(data), tasks))
             ~> (/\ last.op = "handle_payload"
                 /\ last.args.frame = data
                 /\ Len(last.scheduled) = 1)

C22_Witness ==
    /\ ListenerHung
    /\ last.op = "handle_payload"
    /\ last.args.frame = StatsFrame
    /\ Len(last.scheduled) = 1
    /\ BagIn(last.scheduled[1], tasks)
    /\ pcRecv \in {"top", "receive"}

SessionRestCalled ==
    /\ last.op \in RestCalls \cup {"update_player"}
    /\ last.pre._session_id = "None"

\* C27: get_players, get_player, update_player, destroy_player and
\* update_session, called before any ready frame was handled, raise and send
\* no HTTP request.
C27_RestBeforeReadyRaises ==
    SessionRestCalled =>
        /\ last.raised \in {"RuntimeError", "ValueError"}
        /\ \A i \in 1..Len(last.cmds) : ~last.cmds[i].sent
        /\ _session_id = "None"

C27_Witness ==
    /\ SessionRestCalled
    /\ last.op = "update_player"
    /\ last.args.track = "A"
    /\ _voice_states[last.args.guild_id].present
    /\ last.raised = "RuntimeError"
    /\ _session = "open"
    /\ pcRecv = "receive"

SkipOutOfRange ==
    /\ \/ last.op = "skip_to"
       \/ last.op = "manager_skip_to" /\ last.args.guild_id = QueueGuild
    /\ \/ last.args.index < 0
       \/ last.args.index > Len(last.pre.queue)

\* C28: Queue.skip_to and PlayerManager.skip_to with an index below 0 or above
\* the queue's length raise IndexError, leave the queue and its cursor as they
\* were and issue no command.
C28_SkipToOutOfRange ==
    SkipOutOfRange =>
        /\ last.raised = "IndexError"
        /\ QueueFieldsUnchanged
        /\ last.cmds = <<>>

C28_Witness ==
    /\ SkipOutOfRange
    /\ last.op = "manager_skip_to"
    /\ last.args.index = Len(queue) + 1
    /\ Len(queue) = 2
    /\ now_playing_pos = 1
    /\ ~is_paused
    /\ last.raised = "IndexError"

\* both coroutines have run and the node has received every request; the last
\* step was the node receiving a play command, and the cursor is on a track
BothCompleted ==
    /\ tasks = EmptyBag
    /\ last.op = "node_receives"
    /\ last.cmds[1].cmd = "play"
    /\ now_playing(queue, now_playing_pos) # "None"

\* C29: once a manual cursor move and a track-end auto-advance that ran
\* concurrently have both completed, the play command the node received last
\* is for the track at now_playing_pos.
C29_NodePlaysTrackAtCursor ==
    BothCompleted => last.args.track = now_playing(queue, now_playing_pos)

\* a lifecycle event for the guild reached the Queue after it was deleted
DeletedQueueEvent ==
    /\ queues[QueueGuild] # "queue"
    /\ last.op = "track_events"
    /\ last.args.event.guild_id = QueueGuild

\* C30: once the guild's queue is deleted (and also once a new one is created
\* for the guild), a lifecycle event for the guild neither moves the deleted
\* queue's cursor nor makes it issue a command.
C30_DeletedQueueIgnoresEvents ==
    DeletedQueueEvent =>
        /\ now_playing_pos = last.pre.now_playing_pos
        /\ last.cmds = <<>>

\* a FINISHED TrackEnd for the queue's guild, for a track other than the one at
\* the cursor, reached the listener
StaleTrackEnd ==
    /\ last.op = "track_events"
    /\ last.args.event.kind = "TrackEndEvent"
    /\ last.args.event.reason = "FINISHED"
    /\ last.args.event.guild_id = QueueGuild
    /\ last.args.event.encoded_track #
          now_playing(last.pre.queue, last.pre.now_playing_pos)

\* C31: a FINISHED TrackEnd whose encoded_track is not the track at the cursor
\* does not move the cursor and issues no play command.
C31_StaleTrackEndIgnored ==
    StaleTrackEnd =>
        /\ now_playing_pos = last.pre.now_playing_pos
        /\ last.cmds = <<>>

\* the number of play commands issued so far, in a queue that only grows and
\* whose cursor only advances
Played == IF now_playing_pos < Len(queue) THEN now_playing_pos + 1 ELSE Len(queue)

PlayIssued ==
    /\ Len(last.cmds) = 1
    /\ last.cmds[1].cmd = "play"

\* the last operation issued the play command of the i-th track added
PlayedAt(i) ==
    /\ PlayIssued
    /\ Played = i
    /\ i <= Len(queue)
    /\ last.cmds[1].encoded_track = queue[i]

\* the i-th track was added and its play command is not issued yet
Waiting(i) == Len(queue) >= i /\ Played < i

\* every step that issues a command issues the play command of the next track
\* not yet played, and no other step changes the count
PlaysInOrder ==
    [][/\ last'.cmds # <<>> =>
            /\ Len(last'.cmds) = 1
            /\ last'.cmds[1].cmd = "play"
            /\ Played' = Played + 1
            /\ last'.cmds[1].encoded_track = queue'[Played']
       /\ last'.cmds = <<>> => Played' = Played
       /\ Len(queue) <= Len(queue')
       /\ SubSeq(queue', 1, Len(queue)) = queue]_vars

\* C32: with repeat mode none, on a queue that is never paused and is only
\* added to, every added track is eventually the subject of a play command,
\* exactly once and in the order of the adds.
C32_EveryAddedTrackPlayed ==
    /\ PlaysInOrder
    /\ \A i \in 1..MaxLen : Waiting(i) ~> PlayedAt(i)

\* the TrackEnd(FINISHED) of the queue's last track was handled
LastTrackFinished ==
    /\ last.op = "track_events"
    /\ last.raised = "none"
    /\ last.pre.now_playing_pos = Len(last.pre.queue) - 1

\* the play command of the queue's first track was issued, the cursor on it
FirstTrackPlayed ==
    /\ PlayIssued
    /\ now_playing_pos = 0
    /\ last.cmds[1].encoded_track = queue[1]

\* C33: with repeat mode all, after the last track of the queue finishes a play
\* command for the first track is eventually issued.
C33_RepeatAllLoops ==
    LastTrackFinished ~> FirstTrackPlayed

\* PlayerManager.resume succeeded for the queue's guild, the cursor on a track
Resumed ==
    /\ last.op = "resume"
    /\ last.args.guild_id = QueueGuild
    /\ last.raised = "none"
    /\ ~is_paused
    /\ now_playing(queue, now_playing_pos) # "None"

\* C34: after the cursor was moved on a paused queue, once resume() has
\* succeeded the node plays the track at the cursor.
C34_ResumePlaysCursorTrack ==
    Resumed => player = now_playing(queue, now_playing_pos)

\* Queue.clear has just returned
Cleared == last.op = "clear"

\* Queue.add has just returned on an unpaused queue whose list was empty
AddedToEmptyList ==
    /\ last.op = "add"
    /\ last.pre.queue = <<>>
    /\ ~last.pre.is_paused

\* C35: after Queue.clear() the list is empty and the cursor is 0, and the
\* next add on the unpaused, emptied queue issues the play command of the
\* added track.
C35_ClearLeavesEmptyState ==
    /\ Cleared => (Len(queue) = 0 /\ now_playing_pos = 0)
    /\ AddedToEmptyList =>
           (Len(last.cmds) = 1 /\ last.cmds[1].cmd = "play"
                               /\ last.cmds[1].encoded_track = last.args.track)

\* Queue.remove_tracks has just removed, by its index, one entry in front
\* of the cursor, the cursor being on a track
RemovedBeforeCursor ==
    /\ last.op = "remove_tracks"
    /\ last.raised = "none"
    /\ Len(last.args.items) = 1
    /\ last.args.items[1].kind = "index"
    /\ last.args.items[1].index >= 0
    /\ last.args.items[1].index < last.pre.now_playing_pos
    /\ now_playing(last.pre.queue, last.pre.now_playing_pos) # "None"

\* C36: removing an entry in front of the cursor does not change the track
\* that now_playing denotes.
C36_RemoveBeforeCursorKeepsNowPlaying ==
    RemovedBeforeCursor =>
        now_playing(queue, now_playing_pos)
            = now_playing(last.pre.queue, last.pre.now_playing_pos)

\* the REST command issued by add, next, previous or skip_to has just failed,
\* by a precondition of update_player or by the node's answer
CommandFailed ==
    /\ last.op \in {"add", "next", "previous", "skip_to"}
    /\ Len(last.cmds) = 1
    /\ last.cmds[1].outcome # "ok"
    /\ last.raised = last.cmds[1].outcome

\* C37: when the command issued by add, next, previous or skip_to fails, the
\* list and the cursor are what they were before the call.
C37_FailedCommandLeavesQueue ==
    CommandFailed =>
        /\ queue = last.pre.queue
        /\ now_playing_pos = last.pre.now_playing_pos

\* stop() was called on a client whose start() had returned, and has ended
StopEnded ==
    /\ pcStart = "started"
    /\ pcStop \in {"done", "raised"}

\* C38: stop() completes without raising in every state reachable after
\* start() has returned, a reconnection with no live socket included.
C38_StopNeverRaises ==
    StopEnded => pcStop = "done"

\* Queue.previous has just moved the cursor back on an unpaused queue and
\* reached its `assert self.now_playing`
PreviousAsserted ==
    /\ last.op = "previous"
    /\ last.pre.now_playing_pos > 0
    /\ ~last.pre.is_paused

\* C39: the assertion of Queue.previous, that the cursor it moved back is on a
\* track, holds in every state the queue's operations reach.
C39_PreviousAssertionHolds ==
    PreviousAsserted =>
        /\ last.raised # "AssertionError"
        /\ now_playing(queue, now_playing_pos) # "None"

\* the tracks of q whose positions (counted from 0) are not in removed, in
\* their order, from the k-th on
RECURSIVE WithoutPositions(_, _, _)
WithoutPositions(q, removed, k) ==
    IF k > Len(q) THEN <<>>
    ELSE (IF (k - 1) \in removed THEN <<>> ELSE <<q[k]>>)
             \o WithoutPositions(q, removed, k + 1)

\* Queue.remove_tracks has just been called with distinct valid indexes
RemovedByIndexes ==
    /\ last.op = "remove_tracks"
    /\ last.args.items \in RemoveIndexArgs(Len(last.pre.queue))

\* C40: remove_tracks(i1, ..., ik) with distinct valid indexes removes
\* exactly the tracks that were at positions i1..ik before the call and
\* keeps the order of the others.
C40_RemoveTracksByPosition ==
    RemovedByIndexes =>
        /\ last.raised = "none"
        /\ queue = WithoutPositions(last.pre.queue,
                                    {last.args.items[j].index :
                                         j \in 1..Len(last.args.items)}, 1)

====
